---- MODULE Spec2Model ----
(***************************************************************************)
(* Model of the authentication core of the NDN API service: the credential *)
(* store (AuthDB), the token codec (generateToken / parseToken), the       *)
(* AuthService operations, the AuthHandler HTTP handlers and the two       *)
(* access-control middlewares.                                             *)
(* The second half models the catalog: the movies, categories,            *)
(* movie_categories and user_favorites tables, MovieService and            *)
(* CategoryService, and the movie handlers.                                *)
(* The third part models the process: config.LoadConfig, the dig          *)
(* container and server.New, and Server.Start with its shutdown.           *)
(*                                                                         *)
(* Time is counted in ticks; TicksPerSecond ticks make one second, so the  *)
(* model can tell apart instants inside one second (time.Now() has         *)
(* nanosecond resolution, a JWT NumericDate has one-second resolution).    *)
(***************************************************************************)
EXTENDS Integers, Sequences, FiniteSets, TLC

VARIABLES
    users,    \* the users table: a sequence of rows, row i has id i
    pc,       \* pc[p]: position of registration request p inside AuthHandler.Register
    req,      \* req[p]: the decoded RegisterRequest of registration request p
    issued,   \* tokens handed out by generateToken and still held by clients, with their issue time
    now,      \* the wall clock read by time.Now(), in ticks
    resp,     \* the last response written by a handler or middleware
    movies,            \* the movies table: a set of rows
    movieSeq,          \* the last value drawn from the id sequence of movies
    movie_categories,  \* the movie_categories table: a set of (movie_id, category_id) rows
    user_favorites,    \* the user_favorites table: a set of (user_id, movie_id) rows
    categories,        \* the categories table: a set of rows
    work,     \* work[p]: the catalog operation request p is in the middle of
    reply,    \* the last response written by a catalog handler
    environ,     \* the environment of the process: os.Getenv
    configFile,  \* config.yaml as it is on disk
    cfg,         \* what the config provider of the container has returned
    srv,         \* Server.Start: its goroutines, the quit channel, the requests in flight
    boot         \* server.New: how far it is, whether PostgreSQL answers, its error

authVars == <<users, pc, req, issued, now, resp>>
catalogVars == <<movies, movieSeq, movie_categories, user_favorites, categories, work, reply>>
processVars == <<environ, configFile, cfg, srv, boot>>
vars == <<users, pc, req, issued, now, resp,
          movies, movieSeq, movie_categories, user_favorites, categories, work, reply,
          environ, configFile, cfg, srv, boot>>

-----------------------------------------------------------------------------
(* Bounds *)

MaxUsers == 2
MaxIssued == 1
NumProcs == 2
NearWindow == 1
TicksPerSecond == 2

MaxPage == 5
MaxPageSize == 3
MaxMovies == 2
MaxInflight == 4
MaxHeld == 2
ShutdownWindow == 4

Procs == 1..NumProcs

(* Input alphabets *)
Emails == {"a@x.io", "b@x.io"}
Passwords == {"pw-one", "pw-two"}
Names == {"Ann", "Bob"}

-----------------------------------------------------------------------------
(* Program constants *)

StatusOK == 200
StatusCreated == 201
StatusNoContent == 204
StatusBadRequest == 400
StatusUnauthorized == 401
StatusForbidden == 403
StatusNotFound == 404
StatusConflict == 409
StatusInternalServerError == 500

\* 24 * time.Hour, in ticks
TokenTTL == 24 * 3600 * TicksPerSecond

\* jwt.TimePrecision = time.Second, in ticks
TimePrecision == TicksPerSecond

\* cfg.JWT.Secret handed to NewAuthService
JwtSecret == "jwt-secret"

ErrInvalidCredentials == "invalid credentials"
ErrInvalidToken == "invalid or expired token"
ErrUserNotFound == "user not found"
NoErr == ""

\* errors of the storage driver
ErrNoRows == "user not found"
ErrDriver == "driver: bad connection"
ErrUniqueViolation == "duplicate key value violates unique constraint"

\* fmt.Errorf("failed to create user: %w", err)
ErrCreateUserDriver == "failed to create user: driver: bad connection"
ErrCreateUserUnique == "failed to create user: duplicate key value violates unique constraint"

\* outcome of one round trip to the database
DbOutcomes == {"ok", "fail"}

-----------------------------------------------------------------------------
(* models.User and bcrypt *)

\* bcrypt.GenerateFromPassword: a one-way digest of the password
GenerateFromPassword(password) ==
    [alg |-> "bcrypt", cost |-> 10, digest |-> password]

\* bcrypt.CompareHashAndPassword: TRUE iff the hash was made from the password
CompareHashAndPassword(hash, password) ==
    hash.alg = "bcrypt" /\ hash.digest = password

NoHash == [alg |-> "", cost |-> 0, digest |-> ""]

NoUser == [id |-> 0, email |-> "", password |-> NoHash, name |-> "", is_admin |-> FALSE]

User(id, email, hash, name, isAdmin) ==
    [id |-> id, email |-> email, password |-> hash, name |-> name, is_admin |-> isAdmin]

-----------------------------------------------------------------------------
(* database.AuthDB: each operation takes the table and the outcome of the   *)
(* round trip and returns its result and error.                             *)

RowsWithEmail(table, email) == {i \in 1..Len(table) : table[i].email = email}

\* CreateUser on a users table whose email column has no unique index
AuthDB_CreateUser_NoUniqueIndex(table, user, db) ==
    IF db # "ok" THEN [err |-> ErrDriver, table |-> table, user |-> user]
    ELSE LET row == [user EXCEPT !.id = Len(table) + 1]
         IN [err |-> NoErr, table |-> Append(table, row), user |-> row]

\* INSERT INTO users; the email column is declared unique
AuthDB_CreateUser(table, user, db) ==
    IF db # "ok" THEN [err |-> ErrDriver, table |-> table, user |-> user]
    ELSE IF RowsWithEmail(table, user.email) # {}
    THEN [err |-> ErrUniqueViolation, table |-> table, user |-> user]
    ELSE LET row == [user EXCEPT !.id = Len(table) + 1]
         IN [err |-> NoErr, table |-> Append(table, row), user |-> row]

\* SELECT ... WHERE id = ?
AuthDB_GetUser(table, id, db) ==
    IF db # "ok" THEN [err |-> ErrDriver, user |-> NoUser]
    ELSE IF id \in 1..Len(table) THEN [err |-> NoErr, user |-> table[id]]
    ELSE [err |-> ErrNoRows, user |-> NoUser]

\* SELECT ... WHERE email = ?
AuthDB_GetUserByEmail(table, email, db) ==
    IF db # "ok" THEN [err |-> ErrDriver, user |-> NoUser]
    ELSE IF RowsWithEmail(table, email) # {}
    THEN [err |-> NoErr,
          user |-> table[CHOOSE i \in RowsWithEmail(table, email) :
                            \A j \in RowsWithEmail(table, email) : i <= j]]
    ELSE [err |-> ErrNoRows, user |-> NoUser]

\* SELECT EXISTS(... WHERE email = ?)
AuthDB_UserExists(table, email, db) ==
    IF db # "ok" THEN [err |-> ErrDriver, exists |-> FALSE]
    ELSE [err |-> NoErr, exists |-> RowsWithEmail(table, email) # {}]

\* UPDATE users SET ... WHERE id = ?
AuthDB_UpdateUser(table, user) ==
    IF user.id \in 1..Len(table) THEN [table EXCEPT ![user.id] = user] ELSE table

-----------------------------------------------------------------------------
(* Token codec: services.Claims, generateToken, parseToken *)

Claims(userID, email, isAdmin, exp, iat) ==
    [user_id |-> userID, email |-> email, is_admin |-> isAdmin, exp |-> exp, iat |-> iat]

NoClaims == Claims(0, "", FALSE, 0, 0)

\* the MAC of header and payload under a key
NoSig == [alg |-> "", claims |-> NoClaims, key |-> ""]
Mac(alg, claims, key) == [alg |-> alg, claims |-> claims, key |-> key]

\* a token string: three dot-separated segments, or something that is not
NoToken == [fmt |-> "", alg |-> "", claims |-> NoClaims, sig |-> NoSig]
JunkToken == [fmt |-> "junk", alg |-> "", claims |-> NoClaims, sig |-> NoSig]

\* token.SignedString(key)
SignedString(alg, claims, key) ==
    [fmt |-> "jwt", alg |-> alg, claims |-> claims, sig |-> Mac(alg, claims, key)]

\* jwt.NewNumericDate(t) = t.Truncate(TimePrecision)
NewNumericDate(t) == t - (t % TimePrecision)

\* the methods of type *jwt.SigningMethodHMAC
SigningMethodHMAC == {"HS256", "HS384", "HS512"}

generateToken(user, t) ==
    LET expirationTime == t + TokenTTL
        claims == Claims(user.id, user.email, user.is_admin,
                         NewNumericDate(expirationTime), NewNumericDate(t))
    IN SignedString("HS256", claims, JwtSecret)

\* parseToken that still accepts a token at the instant of its expiry
parseToken_ExpiryInclusive(tokenString, t) ==
    IF tokenString.fmt # "jwt"
    THEN [err |-> "token is malformed", claims |-> NoClaims]
    ELSE IF tokenString.alg \notin SigningMethodHMAC
    THEN [err |-> "token is unverifiable", claims |-> NoClaims]
    ELSE IF tokenString.sig # Mac(tokenString.alg, tokenString.claims, JwtSecret)
    THEN [err |-> "token signature is invalid", claims |-> NoClaims]
    ELSE IF ~(t <= tokenString.claims.exp)
    THEN [err |-> "token is expired", claims |-> NoClaims]
    ELSE [err |-> NoErr, claims |-> tokenString.claims]

\* parseToken that decodes the claims without verifying the signature
parseToken_Unverified(tokenString, t) ==
    IF tokenString.fmt # "jwt"
    THEN [err |-> "token is malformed", claims |-> NoClaims]
    ELSE IF ~(t < tokenString.claims.exp)
    THEN [err |-> "token is expired", claims |-> NoClaims]
    ELSE [err |-> NoErr, claims |-> tokenString.claims]

parseToken(tokenString, t) ==
    IF tokenString.fmt # "jwt"
    THEN [err |-> "token is malformed", claims |-> NoClaims]
    ELSE IF tokenString.alg \notin SigningMethodHMAC
    THEN [err |-> "token is unverifiable", claims |-> NoClaims]
    ELSE IF tokenString.sig # Mac(tokenString.alg, tokenString.claims, JwtSecret)
    THEN [err |-> "token signature is invalid", claims |-> NoClaims]
    ELSE IF ~(t < tokenString.claims.exp)
    THEN [err |-> "token is expired", claims |-> NoClaims]
    ELSE [err |-> NoErr, claims |-> tokenString.claims]

-----------------------------------------------------------------------------
(* services.AuthService *)

\* services.AuthResponse (expires_in is left out: it is time.Until(expirationTime)
\* read a moment after the token was built)
AuthResponse(token, user) ==
    [token |-> token, user_id |-> user.id, name |-> user.name,
     email |-> user.email, is_admin |-> user.is_admin]

NoBody == AuthResponse(NoToken, NoUser)

\* fmt.Errorf("failed to create user: %w", err)
WrapCreateUser(err) ==
    IF err = ErrUniqueViolation THEN ErrCreateUserUnique ELSE ErrCreateUserDriver

\* Register that stores the password as given instead of its hash
AuthService_Register_PlainPassword(table, email, password, name, t, db) ==
    LET user == User(0, email, [alg |-> "plain", cost |-> 0, digest |-> password],
                     name, FALSE)
        created == AuthDB_CreateUser(table, user, db)
    IN IF created.err # NoErr
       THEN [err |-> WrapCreateUser(created.err), body |-> NoBody, table |-> created.table]
       ELSE [err |-> NoErr,
             body |-> AuthResponse(generateToken(created.user, t), created.user),
             table |-> created.table]

AuthService_Register(table, email, password, name, t, db) ==
    LET hashedPassword == GenerateFromPassword(password)
        user == User(0, email, hashedPassword, name, FALSE)
        created == AuthDB_CreateUser(table, user, db)
    IN IF created.err # NoErr
       THEN [err |-> WrapCreateUser(created.err), body |-> NoBody, table |-> created.table]
       ELSE [err |-> NoErr,
             body |-> AuthResponse(generateToken(created.user, t), created.user),
             table |-> created.table]

\* Login that reports an unknown email as ErrUserNotFound
AuthService_Login_UnknownEmail(table, email, password, t, db) ==
    LET got == AuthDB_GetUserByEmail(table, email, db)
    IN IF got.err # NoErr
       THEN [err |-> ErrUserNotFound, body |-> NoBody]
       ELSE IF ~CompareHashAndPassword(got.user.password, password)
       THEN [err |-> ErrInvalidCredentials, body |-> NoBody]
       ELSE [err |-> NoErr, body |-> AuthResponse(generateToken(got.user, t), got.user)]

AuthService_Login(table, email, password, t, db) ==
    LET got == AuthDB_GetUserByEmail(table, email, db)
    IN IF got.err # NoErr
       THEN [err |-> ErrInvalidCredentials, body |-> NoBody]
       ELSE IF ~CompareHashAndPassword(got.user.password, password)
       THEN [err |-> ErrInvalidCredentials, body |-> NoBody]
       ELSE [err |-> NoErr, body |-> AuthResponse(generateToken(got.user, t), got.user)]

\* RefreshToken that copies the admin flag from the claims of the old token
AuthService_RefreshToken_FromClaims(table, token, t, db) ==
    LET parsed == parseToken(token, t)
        got == AuthDB_GetUser(table, parsed.claims.user_id, db)
        user == [got.user EXCEPT !.is_admin = parsed.claims.is_admin]
    IN IF parsed.err # NoErr
       THEN [err |-> ErrInvalidToken, body |-> NoBody]
       ELSE IF got.err # NoErr
       THEN [err |-> ErrUserNotFound, body |-> NoBody]
       ELSE [err |-> NoErr, body |-> AuthResponse(generateToken(user, t), user)]

AuthService_RefreshToken(table, token, t, db) ==
    LET parsed == parseToken(token, t)
        got == AuthDB_GetUser(table, parsed.claims.user_id, db)
    IN IF parsed.err # NoErr
       THEN [err |-> ErrInvalidToken, body |-> NoBody]
       ELSE IF got.err # NoErr
       THEN [err |-> ErrUserNotFound, body |-> NoBody]
       ELSE [err |-> NoErr, body |-> AuthResponse(generateToken(got.user, t), got.user)]

\* ValidateToken of a service that keeps sessions: a token is refused once a
\* later one has been issued to its user
AuthService_ValidateToken_Sessions(token, t) ==
    LET parsed == parseToken(token, t)
    IN IF parsed.err # NoErr
          \/ \E e \in issued : /\ e.user = parsed.claims.user_id
                                /\ e.token.claims.iat > parsed.claims.iat
       THEN [err |-> ErrInvalidToken, userID |-> 0]
       ELSE [err |-> NoErr, userID |-> parsed.claims.user_id]

AuthService_ValidateToken(token, t) ==
    LET parsed == parseToken(token, t)
    IN IF parsed.err # NoErr
       THEN [err |-> ErrInvalidToken, userID |-> 0]
       ELSE [err |-> NoErr, userID |-> parsed.claims.user_id]

AuthService_IsAdmin(table, userID, db) ==
    LET got == AuthDB_GetUser(table, userID, db)
    IN IF got.err # NoErr
       THEN [err |-> got.err, isAdmin |-> FALSE]
       ELSE [err |-> NoErr, isAdmin |-> got.user.is_admin]

-----------------------------------------------------------------------------
(* The Authorization header: a string, modelled as a sequence of atoms; an   *)
(* atom is one space, a word without spaces, or a token string.              *)

Space == [k |-> "space", w |-> " ", t |-> NoToken]
Word(w) == [k |-> "word", w |-> w, t |-> NoToken]
Tok(t) == [k |-> "token", w |-> "", t |-> t]

\* strings.Split(s, " "): the pieces between the spaces, empty pieces included
RECURSIVE Split(_)
Split(s) ==
    IF s = <<>> THEN << <<>> >>
    ELSE LET rest == Split(Tail(s))
         IN IF Head(s) = Space
            THEN << <<>> >> \o rest
            ELSE << <<Head(s)>> \o Head(rest) >> \o Tail(rest)

\* the token string a piece of the header denotes
AsTokenString(piece) ==
    IF piece = <<>> THEN NoToken
    ELSE IF Len(piece) = 1 /\ piece[1].k = "token" THEN piece[1].t
    ELSE JunkToken

\* extractToken without the comparison of the scheme
extractToken_AnyScheme(bearerToken) ==
    IF bearerToken = <<>> THEN NoToken
    ELSE LET parts == Split(bearerToken)
         IN IF Len(parts) # 2 THEN NoToken ELSE AsTokenString(parts[2])

extractToken(bearerToken) ==
    IF bearerToken = <<>> THEN NoToken
    ELSE LET parts == Split(bearerToken)
         IN IF Len(parts) # 2 \/ parts[1] # <<Word("Bearer")>>
            THEN NoToken
            ELSE AsTokenString(parts[2])

-----------------------------------------------------------------------------
(* handlers.AuthHandler: what each handler writes for a request *)

\* a request: whether its body decodes as JSON, the decoded fields, the
\* Authorization header, and the outcome of the database round trip made for it
NoReq == [json |-> TRUE, email |-> "", password |-> "", name |-> "", auth |-> <<>>,
          db |-> ""]

RegisterRequest(json, email, password, name) ==
    [json |-> json, email |-> email, password |-> password, name |-> name, auth |-> <<>>,
     db |-> ""]

LoginRequest(json, email, password) ==
    [json |-> json, email |-> email, password |-> password, name |-> "", auth |-> <<>>,
     db |-> ""]

BearerRequest(header) ==
    [json |-> TRUE, email |-> "", password |-> "", name |-> "", auth |-> header,
     db |-> ""]

\* What a handler writes to the connection: the Content-Type the client gets,
\* the form of the body, the keys of its JSON object and the value of "error",
\* or its text when it is not JSON
Wire(contentType, form, keys, error, text) ==
    [contentType |-> contentType, form |-> form, keys |-> keys, error |-> error,
     text |-> text]

NoWire == Wire("", "none", {}, "", "")

\* json.NewEncoder(w).Encode(ErrorResponse{Error: message}) after the header
\* Content-Type: application/json
EncodeErrorResponse(message) == Wire("application/json", "json", {"error"}, message, "")

\* json.NewEncoder(w).Encode(value) of a response struct with the given keys.
\* Some handlers set Content-Type: application/json before it and some leave
\* the header to net/http; the header of a successful response is not
\* represented.
EncodeValue(keys) == Wire("-", "json", keys, "", "")

\* net/http.Error: Content-Type text/plain, the message and a newline
PlainText(message) == Wire("text/plain; charset=utf-8", "text", {}, "", message)

\* h.sendError(w, message, status)
sendError(op, request, message, status) ==
    [op |-> op, request |-> request, status |-> status, error |-> message,
     body |-> NoBody, next |-> FALSE, ctxUserID |-> 0,
     wire |-> EncodeErrorResponse(message)]

\* json.NewEncoder(w).Encode(authResp)
sendBody(op, request, status, body) ==
    [op |-> op, request |-> request, status |-> status, error |-> NoErr,
     body |-> body, next |-> FALSE, ctxUserID |-> 0,
     wire |-> EncodeValue(DOMAIN body)]

\* next.ServeHTTP(w, r): the request is handed to the downstream handler
serveNext(op, request, ctxUserID) ==
    [op |-> op, request |-> request, status |-> 0, error |-> NoErr,
     body |-> NoBody, next |-> TRUE, ctxUserID |-> ctxUserID, wire |-> NoWire]

NoResp == [op |-> "", request |-> NoReq, status |-> 0, error |-> NoErr,
           body |-> NoBody, next |-> FALSE, ctxUserID |-> 0, wire |-> NoWire]

\* AuthHandler.Register up to and including the existence check; "proceed"
\* means the handler goes on to authService.Register
AuthHandler_RegisterCheck(table, r) ==
    LET exists == AuthDB_UserExists(table, r.email, r.db)
    IN IF ~r.json
       THEN [proceed |-> FALSE,
             resp |-> sendError("register", r, "Invalid request body", StatusBadRequest)]
       ELSE IF r.email = "" \/ r.password = "" \/ r.name = ""
       THEN [proceed |-> FALSE,
             resp |-> sendError("register", r, "Email, password, and name are required",
                                StatusBadRequest)]
       ELSE IF exists.err # NoErr
       THEN [proceed |-> FALSE,
             resp |-> sendError("register", r, "Internal server error",
                                StatusInternalServerError)]
       ELSE IF exists.exists
       THEN [proceed |-> FALSE,
             resp |-> sendError("register", r, "Email already registered", StatusConflict)]
       ELSE [proceed |-> TRUE, resp |-> NoResp]

\* AuthHandler.Register from the call of authService.Register on
AuthHandler_RegisterInsert(table, r, t) ==
    LET res == AuthService_Register(table, r.email, r.password, r.name, t, r.db)
    IN IF res.err # NoErr
       THEN [table |-> res.table,
             resp |-> sendError("register", r, res.err, StatusInternalServerError)]
       ELSE [table |-> res.table,
             resp |-> sendBody("register", r, StatusCreated, res.body)]

AuthHandler_Login(table, r, t) ==
    LET res == AuthService_Login(table, r.email, r.password, t, r.db)
    IN IF ~r.json
       THEN sendError("login", r, "Invalid request body", StatusBadRequest)
       ELSE IF r.email = "" \/ r.password = ""
       THEN sendError("login", r, "Email and password are required", StatusBadRequest)
       ELSE IF res.err # NoErr
       THEN IF res.err = ErrInvalidCredentials
            THEN sendError("login", r, "Invalid email or password", StatusUnauthorized)
            ELSE sendError("login", r, "Internal server error", StatusInternalServerError)
       ELSE sendBody("login", r, StatusOK, res.body)

AuthHandler_Refresh(table, r, t) ==
    LET token == extractToken(r.auth)
        res == AuthService_RefreshToken(table, token, t, r.db)
    IN IF token = NoToken
       THEN sendError("refresh", r, "Missing authorization header", StatusUnauthorized)
       ELSE IF res.err # NoErr
       THEN IF res.err = ErrInvalidToken
            THEN sendError("refresh", r, "Invalid or expired token", StatusUnauthorized)
            ELSE sendError("refresh", r, "Internal server error", StatusInternalServerError)
       ELSE sendBody("refresh", r, StatusOK, res.body)

\* the authentication stage in front of a handler
AuthHandler_AuthMiddleware(op, r, t) ==
    LET token == extractToken(r.auth)
        res == AuthService_ValidateToken(token, t)
    IN IF token = NoToken
       THEN sendError(op, r, "Missing authorization header", StatusUnauthorized)
       ELSE IF res.err # NoErr
       THEN IF res.err = ErrInvalidToken
            THEN sendError(op, r, "Invalid or expired token", StatusUnauthorized)
            ELSE sendError(op, r, "Internal server error", StatusInternalServerError)
       ELSE serveNext(op, r, res.userID)

\* AdminMiddleware without the check of the error IsAdmin returns
AuthHandler_AdminMiddleware_NoErrCheck(table, op, r, userID) ==
    LET res == AuthService_IsAdmin(table, userID, r.db)
    IN IF userID = 0
       THEN sendError(op, r, "Unauthorized", StatusUnauthorized)
       ELSE IF ~res.isAdmin
       THEN sendError(op, r, "Admin access required", StatusForbidden)
       ELSE serveNext(op, r, userID)

\* the admin-authorization stage, for a request whose context carries userID
AuthHandler_AdminMiddleware(table, op, r, userID) ==
    LET res == AuthService_IsAdmin(table, userID, r.db)
    IN IF userID = 0
       THEN sendError(op, r, "Unauthorized", StatusUnauthorized)
       ELSE IF res.err # NoErr
       THEN sendError(op, r, "Internal server error", StatusInternalServerError)
       ELSE IF ~res.isAdmin
       THEN sendError(op, r, "Admin access required", StatusForbidden)
       ELSE serveNext(op, r, userID)

\* a route of the protected group: r.Use(authHandler.AuthMiddleware)
ProtectedRoute(r, t) == AuthHandler_AuthMiddleware("protected", r, t)

\* an admin route that takes the admin flag from the claims of the token
AdminRoute_TrustClaims(table, r, t) ==
    LET authed == AuthHandler_AuthMiddleware("admin", r, t)
        claims == parseToken(extractToken(r.auth), t).claims
    IN IF authed.next
       THEN IF claims.is_admin
            THEN serveNext("admin", r, authed.ctxUserID)
            ELSE sendError("admin", r, "Admin access required", StatusForbidden)
       ELSE authed

\* a route under /admin: AuthMiddleware first, AdminMiddleware second
AdminRoute(table, r, t) ==
    LET authed == AuthHandler_AuthMiddleware("admin", r, t)
    IN IF authed.next
       THEN AuthHandler_AdminMiddleware(table, "admin", r, authed.ctxUserID)
       ELSE authed

-----------------------------------------------------------------------------
(* The request context: context.WithValue chains (key, value) pairs; Value    *)
(* returns the value of the innermost pair whose key equals the key asked    *)
(* for. Keys are interface values: two keys are equal when they have the     *)
(* same dynamic type and the same value.                                     *)

\* context.Background()
Background == <<>>

\* a key: its dynamic type and its value
CtxKey(type, value) == [type |-> type, value |-> value]

\* const userIDKey contextKey = "user_id"
userIDKey == CtxKey("services.contextKey", "user_id")

\* the untyped string constant "user_id" used as a key
StringKey == CtxKey("string", "user_id")

NoCtxValue == [ok |-> FALSE, v |-> 0]

\* ctx.Value(key).(int64)
CtxValue(ctx, key) ==
    LET hits == {i \in 1..Len(ctx) : ctx[i].key = key}
    IN IF hits = {} THEN NoCtxValue
       ELSE [ok |-> TRUE, v |-> ctx[CHOOSE i \in hits : \A j \in hits : j <= i].v]

ContextWithUserID(ctx, userID) == Append(ctx, [key |-> userIDKey, v |-> userID])

UserIDFromContext(ctx) == CtxValue(ctx, userIDKey).v

-----------------------------------------------------------------------------
(* database.UserDB, services.UserService, handlers.UserHandler *)

ErrGetUserNotFound == "failed to get user: user not found"
ErrGetUserDriver == "failed to get user: driver: bad connection"

\* UserDB.GetUser
UserDB_GetUser(table, id, db) ==
    IF db # "ok" THEN [err |-> ErrDriver, user |-> NoUser]
    ELSE IF id \in 1..Len(table) THEN [err |-> NoErr, user |-> table[id]]
    ELSE [err |-> ErrNoRows, user |-> NoUser]

\* UserDB.UpdateUser: UPDATE users SET <the non-zero fields> WHERE id = ?
UserDB_UpdateUser(table, user) ==
    IF user.id \in 1..Len(table)
    THEN LET row == table[user.id]
         IN [table EXCEPT ![user.id] =
               [id |-> row.id,
                email |-> IF user.email = "" THEN row.email ELSE user.email,
                password |-> IF user.password = NoHash THEN row.password ELSE user.password,
                name |-> IF user.name = "" THEN row.name ELSE user.name,
                is_admin |-> IF user.is_admin = FALSE THEN row.is_admin ELSE user.is_admin]]
    ELSE table

\* UserService.GetUser
UserService_GetUser(table, id, db) ==
    LET got == UserDB_GetUser(table, id, db)
    IN IF got.err = NoErr THEN got
       ELSE [err |-> IF got.err = ErrNoRows THEN ErrGetUserNotFound ELSE ErrGetUserDriver,
             user |-> NoUser]

\* UserService.UpdateUser: read the row, set the name, write it back
UserService_UpdateUser(table, id, name, db) ==
    LET got == UserService_GetUser(table, id, db)
        user == [got.user EXCEPT !.name = name]
    IN IF got.err # NoErr THEN [err |-> got.err, user |-> NoUser, table |-> table]
       ELSE [err |-> NoErr, user |-> user, table |-> UserDB_UpdateUser(table, user)]

\* UserService.UpdateUser up to the write: s.db.GetUser, user.Name = name
UserService_UpdateUser_Load(table, id, name, db) ==
    LET got == UserService_GetUser(table, id, db)
    IN IF got.err # NoErr THEN [err |-> got.err, user |-> NoUser]
       ELSE [err |-> NoErr, user |-> [got.user EXCEPT !.name = name]]

\* UserService.UpdateUser, the write: s.db.UpdateUser(ctx, user)
UserService_UpdateUser_Write(table, user, db) ==
    IF db # "ok"
    THEN [err |-> "failed to update user: driver: bad connection", user |-> NoUser,
          table |-> table]
    ELSE [err |-> NoErr, user |-> user, table |-> UserDB_UpdateUser(table, user)]

\* UserResponse (the two timestamps left out)
UserResponse(user) ==
    [id |-> user.id, email |-> user.email, name |-> user.name, is_admin |-> user.is_admin]

\* UserHandler.GetProfile
UserHandler_GetProfile(table, r, ctx) ==
    LET got == CtxValue(ctx, StringKey)
        res == UserService_GetUser(table, got.v, r.db)
    IN IF ~got.ok
       THEN sendError("UserHandler.GetProfile", r, "Unauthorized", StatusUnauthorized)
       ELSE IF res.err # NoErr
       THEN sendError("UserHandler.GetProfile", r, res.err, StatusInternalServerError)
       ELSE sendBody("UserHandler.GetProfile", r, StatusOK, UserResponse(res.user))

\* UserHandler.UpdateProfile; the result carries the users table it leaves
UserHandler_UpdateProfile(table, r, ctx) ==
    LET got == CtxValue(ctx, StringKey)
        res == UserService_UpdateUser(table, got.v, r.name, r.db)
    IN IF ~got.ok
       THEN [table |-> table,
             resp |-> sendError("UserHandler.UpdateProfile", r, "Unauthorized", StatusUnauthorized)]
       ELSE IF ~r.json
       THEN [table |-> table,
             resp |-> sendError("UserHandler.UpdateProfile", r, "Invalid request body", StatusBadRequest)]
       ELSE IF r.name = ""
       THEN [table |-> table,
             resp |-> sendError("UserHandler.UpdateProfile", r, "Name is required", StatusBadRequest)]
       ELSE IF res.err # NoErr
       THEN [table |-> table,
             resp |-> sendError("UserHandler.UpdateProfile", r, res.err, StatusInternalServerError)]
       ELSE [table |-> res.table,
             resp |-> sendBody("UserHandler.UpdateProfile", r, StatusOK, UserResponse(res.user))]

-----------------------------------------------------------------------------
(* The router built by SetupRoutes: every route with the middlewares its     *)
(* group installs, outermost first.                                          *)

Route(method, path, use, handler) ==
    [method |-> method, path |-> path, use |-> use, handler |-> handler]

\* the public group installs no middleware
PublicUse == <<>>

\* the protected group: r.Use(authHandler.AuthMiddleware)
ProtectedUse == <<"AuthMiddleware">>

\* /admin inside the protected group without r.Use(authHandler.AdminMiddleware)
AdminUse_AuthOnly == ProtectedUse

\* /admin inside the protected group: r.Use(authHandler.AdminMiddleware) on top
AdminUse == ProtectedUse \o <<"AdminMiddleware">>

PublicRoutes ==
    { Route("POST", "/api/auth/register", PublicUse, "AuthHandler.Register"),
      Route("POST", "/api/auth/login", PublicUse, "AuthHandler.Login"),
      Route("POST", "/api/auth/refresh", PublicUse, "AuthHandler.Refresh"),
      Route("GET", "/api/movies", PublicUse, "MovieHandler.GetMovies"),
      Route("GET", "/api/movies/{id}", PublicUse, "MovieHandler.GetMovie"),
      Route("GET", "/api/movies/top-rated", PublicUse, "MovieHandler.GetTopRatedMovies"),
      Route("GET", "/api/movies/recently-added", PublicUse,
            "MovieHandler.GetRecentlyAddedMovies"),
      Route("GET", "/api/categories", PublicUse, "CategoryHandler.GetCategories"),
      Route("GET", "/api/categories/{id}", PublicUse, "CategoryHandler.GetCategory") }

ProfileRoutes ==
    { Route("GET", "/api/users/profile", ProtectedUse, "UserHandler.GetProfile"),
      Route("PUT", "/api/users/profile", ProtectedUse, "UserHandler.UpdateProfile") }

AdminRoutes ==
    { Route("POST", "/api/admin/movies/", AdminUse, "MovieHandler.CreateMovie"),
      Route("PUT", "/api/admin/movies/{id}", AdminUse, "MovieHandler.UpdateMovie"),
      Route("DELETE", "/api/admin/movies/{id}", AdminUse, "MovieHandler.DeleteMovie"),
      Route("POST", "/api/admin/categories/", AdminUse, "CategoryHandler.CreateCategory"),
      Route("DELETE", "/api/admin/categories/{id}", AdminUse,
            "CategoryHandler.DeleteCategory"),
      Route("GET", "/api/admin/users/", AdminUse, "UserHandler.ListUsers"),
      Route("GET", "/api/admin/users/{id}", AdminUse, "UserHandler.GetUser") }

Routes == PublicRoutes \cup ProfileRoutes \cup AdminRoutes

\* the handler at the end of the chain; the two profile handlers are carried
\* out, of every other handler only the fact that it was invoked is recorded
Handle(table, handler, r, ctx) ==
    IF handler = "UserHandler.GetProfile"
    THEN [table |-> table, resp |-> UserHandler_GetProfile(table, r, ctx)]
    ELSE IF handler = "UserHandler.UpdateProfile"
    THEN UserHandler_UpdateProfile(table, r, ctx)
    ELSE [table |-> table, resp |-> serveNext(handler, r, UserIDFromContext(ctx))]

\* the middlewares of a route, outermost first, and then its handler
RECURSIVE ServeChain(_, _, _, _, _, _)
ServeChain(table, use, handler, r, ctx, t) ==
    IF use = <<>> THEN Handle(table, handler, r, ctx)
    ELSE IF Head(use) = "AuthMiddleware"
    THEN LET authed == AuthHandler_AuthMiddleware(handler, r, t)
         IN IF authed.next
            THEN ServeChain(table, Tail(use), handler, r,
                            ContextWithUserID(ctx, authed.ctxUserID), t)
            ELSE [table |-> table, resp |-> authed]
    ELSE LET passed == AuthHandler_AdminMiddleware(table, handler, r,
                                                   UserIDFromContext(ctx))
         IN IF passed.next
            THEN ServeChain(table, Tail(use), handler, r, ctx, t)
            ELSE [table |-> table, resp |-> passed]

\* chi serving a request that matches the route
ServeHTTP(table, route, r, t) ==
    ServeChain(table, route.use, route.handler, r, Background, t)

-----------------------------------------------------------------------------
(* What clients can send *)

\* tokens a client can make from a token it holds, without the secret
Tampered(tok) == [tok EXCEPT !.claims.is_admin = ~@]
Prolonged(tok) == [tok EXCEPT !.claims.exp = @ + TokenTTL]
ForeignSigned(tok) == SignedString("HS256", tok.claims, "other-secret")
Unsigned(tok) == [fmt |-> "jwt", alg |-> "none", claims |-> tok.claims, sig |-> NoSig]

Forgeries(tok) == {Tampered(tok), Prolonged(tok), ForeignSigned(tok), Unsigned(tok)}

Held == {e.token : e \in issued}

\* well-formed Authorization headers
BearerHeader(tok) == <<Word("Bearer"), Space, Tok(tok)>>

\* headers that are not of the form "Bearer <token>"
BadHeaders(tok) ==
    { <<>>,
      <<Tok(tok)>>,
      <<Word("Bearer")>>,
      <<Word("Bearer"), Space>>,
      <<Word("Basic"), Space, Tok(tok)>>,
      <<Word("bearer"), Space, Tok(tok)>>,
      <<Word("Bearer"), Space, Space, Tok(tok)>>,
      <<Word("Bearer"), Space, Tok(tok), Space, Word("x")>> }

Headers ==
    {BearerHeader(tok) : tok \in Held \cup {JunkToken}}
    \cup {BearerHeader(f) : f \in UNION {Forgeries(tok) : tok \in Held}}
    \cup UNION {BadHeaders(tok) : tok \in Held \cup {JunkToken}}

\* a client keeps a token it was given, dropping one it holds when it holds MaxIssued
Keep(token, userID, t) ==
    LET e == [token |-> token, user |-> userID, at |-> t]
    IN IF e \in issued THEN {issued}
       ELSE IF Cardinality(issued) < MaxIssued THEN {issued \cup {e}}
       ELSE {issued} \cup {(issued \ {x}) \cup {e} : x \in issued}

\* a token issued by an earlier run of the service for a user id that has no row
OrphanId == MaxUsers + 1
OrphanToken ==
    generateToken(User(OrphanId, "gone@x.io", NoHash, "Gone", FALSE), 0)

-----------------------------------------------------------------------------
(* The clock: the model follows it tick by tick within NearWindow ticks of a *)
(* multiple of TokenTTL and jumps over the stretch in between.               *)

MaxTime == TokenTTL + NearWindow

NearBoundary(t) ==
    (t % TokenTTL) <= NearWindow \/ (t % TokenTTL) >= TokenTTL - NearWindow

-----------------------------------------------------------------------------
(* models.Movie and the movies table. A row keeps id, title, description,   *)
(* release_year, rating and created_at; duration, poster_url, video_url and *)
(* categories are handled by the code exactly as description and            *)
(* release_year are and are left out. Ratings are in tenths.                *)

Movie(id, title, description, releaseYear, rating, createdAt) ==
    [id |-> id, title |-> title, description |-> description,
     release_year |-> releaseYear, rating |-> rating, created_at |-> createdAt]

NoMovie == Movie(0, "", "", 0, 0, 0)

\* the titles of the model in the order the database collates them
TitleOrder == <<"", "Alien", "Brazil", "Casablanca", "Dune">>

Collate(title) == CHOOSE i \in 1..Len(TitleOrder) : TitleOrder[i] = title

\* text ILIKE '%' || term || '%': the term occurs in the text, case ignored
ILike(text, term) ==
    \/ term = ""
    \/ <<text, term>> \in {<<"Alien", "ALI">>, <<"about aliens", "ALI">>}

\* services.MovieFilter; Year is a pointer: set or nil
MovieFilter(search, sortBy, year, page, pageSize) ==
    [search |-> search, sort_by |-> sortBy, year |-> year, page |-> page,
     page_size |-> pageSize]

NoYear == [set |-> FALSE, v |-> 0]
Year(v) == [set |-> TRUE, v |-> v]

\* the WHERE clauses GetMovies adds for a filter
Matches(m, filter) ==
    /\ filter.search # "" =>
         (ILike(m.title, filter.search) \/ ILike(m.description, filter.search))
    /\ filter.year.set => m.release_year = filter.year.v

\* GetMovies that maps the sort key whatever its case
SortKey_FoldCase(sortBy) ==
    IF sortBy \in {"title_asc", "TITLE_ASC"} THEN [col |-> "title", dir |-> "ASC"]
    ELSE IF sortBy = "title_desc" THEN [col |-> "title", dir |-> "DESC"]
    ELSE IF sortBy = "year_asc" THEN [col |-> "release_year", dir |-> "ASC"]
    ELSE IF sortBy = "year_desc" THEN [col |-> "release_year", dir |-> "DESC"]
    ELSE IF sortBy = "rating_desc" THEN [col |-> "rating", dir |-> "DESC"]
    ELSE [col |-> "created_at", dir |-> "DESC"]

\* the ORDER BY clause GetMovies adds for a sort key
SortKey(sortBy) ==
    IF sortBy = "title_asc" THEN [col |-> "title", dir |-> "ASC"]
    ELSE IF sortBy = "title_desc" THEN [col |-> "title", dir |-> "DESC"]
    ELSE IF sortBy = "year_asc" THEN [col |-> "release_year", dir |-> "ASC"]
    ELSE IF sortBy = "year_desc" THEN [col |-> "release_year", dir |-> "DESC"]
    ELSE IF sortBy = "rating_desc" THEN [col |-> "rating", dir |-> "DESC"]
    ELSE [col |-> "created_at", dir |-> "DESC"]

\* the value of a column of a row, as the database compares it
Column(m, col) ==
    IF col = "title" THEN Collate(m.title)
    ELSE IF col = "release_year" THEN m.release_year
    ELSE IF col = "rating" THEN m.rating
    ELSE m.created_at

InOrder(rows, key) ==
    \A i, j \in 1..Len(rows) :
        i < j => IF key.dir = "ASC"
                 THEN Column(rows[i], key.col) <= Column(rows[j], key.col)
                 ELSE Column(rows[i], key.col) >= Column(rows[j], key.col)

RECURSIVE Perms(_)
Perms(S) ==
    IF S = {} THEN {<<>>}
    ELSE UNION {{<<x>> \o q : q \in Perms(S \ {x})} : x \in S}

\* ORDER BY: every sequence of the rows the database may return; rows that
\* are equal in the ordering column come in any order
OrderBy(S, key) == {q \in Perms(S) : InOrder(q, key)}

\* LIMIT limit OFFSET offset
LimitOffset(rows, limit, offset) ==
    IF offset >= Len(rows) THEN <<>>
    ELSE SubSeq(rows, offset + 1,
                IF offset + limit <= Len(rows) THEN offset + limit ELSE Len(rows))

\* the page size MovieService.GetMovies falls back to
ServicePageSize == 20

\* GetMovies that counts the rows of the page it returns
MovieService_GetMovies_CountPage(table, filter, db) ==
    IF db # "ok"
    THEN {[movies |-> <<>>, total |-> 0, err |-> ErrDriver, limit |-> 0, offset |-> 0]}
    ELSE LET matching == {m \in table : Matches(m, filter)}
             page == IF filter.page <= 0 THEN 1 ELSE filter.page
             pageSize == IF filter.page_size <= 0 THEN ServicePageSize ELSE filter.page_size
             offset == (page - 1) * pageSize
         IN {[movies |-> LimitOffset(q, pageSize, offset),
              total |-> Len(LimitOffset(q, pageSize, offset)),
              err |-> NoErr, limit |-> pageSize, offset |-> offset] :
                q \in OrderBy(matching, SortKey(filter.sort_by))}

\* MovieService.GetMovies: the results the call may return; limit and offset
\* are the values the query was run with
MovieService_GetMovies(table, filter, db) ==
    IF db # "ok"
    THEN {[movies |-> <<>>, total |-> 0, err |-> ErrDriver, limit |-> 0, offset |-> 0]}
    ELSE LET matching == {m \in table : Matches(m, filter)}
             total == Cardinality(matching)
             page == IF filter.page <= 0 THEN 1 ELSE filter.page
             pageSize == IF filter.page_size <= 0 THEN ServicePageSize ELSE filter.page_size
             offset == (page - 1) * pageSize
         IN {[movies |-> LimitOffset(q, pageSize, offset), total |-> total,
              err |-> NoErr, limit |-> pageSize, offset |-> offset] :
                q \in OrderBy(matching, SortKey(filter.sort_by))}

-----------------------------------------------------------------------------
(* handlers.MovieHandler.GetMovies *)

\* a query parameter: absent, or a string that strconv.Atoi parses or not
Absent == [present |-> FALSE, int |-> FALSE, n |-> 0]
Junk == [present |-> TRUE, int |-> FALSE, n |-> 0]
Num(n) == [present |-> TRUE, int |-> TRUE, n |-> n]

\* strconv.Atoi
Atoi(param) == [err |-> ~param.int, n |-> IF param.int THEN param.n ELSE 0]

\* the query string of GET /api/movies and the outcome of the round trip
MovieQuery(page, pageSize, sortBy, year, search, db) ==
    [page |-> page, page_size |-> pageSize, sort_by |-> sortBy, year |-> year,
     search |-> search, db |-> db]

NoQuery == MovieQuery(Absent, Absent, "", Absent, "", "")

\* the page and the page size MovieHandler.GetMovies sets for an absent parameter
HandlerPage == 1
HandlerPageSize == 10

\* MovieResponse
MovieResponse(m) ==
    [id |-> m.id, title |-> m.title, description |-> m.description,
     release_year |-> m.release_year, rating |-> m.rating]

NoMovieResponse == MovieResponse(NoMovie)

\* what a catalog handler writes: op names the handler; movies, total and page
\* are the PaginatedMovieResponse, movie the MovieResponse, categories the
\* CategoryResponse list; limit and offset record the values the listing
\* query was run with
NoReply == [op |-> "", request |-> NoQuery, status |-> 0, error |-> NoErr,
          movies |-> <<>>, total |-> 0, page |-> 0, limit |-> 0, offset |-> 0,
          movie |-> NoMovieResponse, categories |-> <<>>, wire |-> NoWire]

\* http.Error(w, message, status)
httpError(op, request, message, status) ==
    [NoReply EXCEPT !.op = op, !.request = request, !.status = status, !.error = message,
                    !.wire = PlainText(message)]

\* the MovieFilter MovieHandler.GetMovies builds from the query string
FilterOf(q) ==
    MovieFilter(q.search, q.sort_by,
                IF q.year.present /\ ~Atoi(q.year).err THEN Year(Atoi(q.year).n) ELSE NoYear,
                IF q.page.present
                THEN (IF ~Atoi(q.page).err /\ Atoi(q.page).n > 0 THEN Atoi(q.page).n ELSE 0)
                ELSE HandlerPage,
                IF q.page_size.present
                THEN (IF ~Atoi(q.page_size).err /\ Atoi(q.page_size).n > 0
                      THEN Atoi(q.page_size).n ELSE 0)
                ELSE HandlerPageSize)

\* MovieHandler.GetMovies: the responses it may write
MovieHandler_GetMovies(table, q) ==
    LET filter == FilterOf(q)
    IN {IF res.err # NoErr
        THEN httpError("GetMovies", q, res.err, StatusInternalServerError)
        ELSE [NoReply EXCEPT !.op = "GetMovies", !.request = q, !.status = StatusOK,
                           !.movies = [i \in 1..Len(res.movies) |->
                                          MovieResponse(res.movies[i])],
                           !.total = res.total, !.page = filter.page,
                           !.limit = res.limit, !.offset = res.offset,
                           !.wire = EncodeValue({"movies", "total", "page"})] :
          res \in MovieService_GetMovies(table, filter, q.db)}

\* a request to POST /api/admin/movies or PUT /api/admin/movies/{id}: the
\* path parameter {id}, whether the body decodes as JSON, the fields present
\* in it and their values, and the outcome of the database round trip
MovieBody(json, present, title, description, releaseYear) ==
    [id |-> Absent, json |-> json, present |-> present, title |-> title,
     description |-> description, release_year |-> releaseYear, db |-> ""]

NoMovieBody == MovieBody(TRUE, {}, "", "", 0)

-----------------------------------------------------------------------------
(* MovieService.GetMovie / CreateMovie / UpdateMovie and their handlers.    *)
(* CreateMovie and UpdateMovie are an existence check followed by a separate *)
(* statement; each is cut in the steps between which other requests run.     *)

ErrMovieExists == "movie already exists"
ErrTitleTaken == "movie title already taken"
ErrSqlNoRows == "sql: no rows in result set"

\* MovieService.GetMovie: SELECT ... WHERE id = ?
MovieService_GetMovie(table, id, db) ==
    IF db # "ok" THEN [err |-> ErrDriver, movie |-> NoMovie]
    ELSE IF \E m \in table : m.id = id
    THEN [err |-> NoErr, movie |-> CHOOSE m \in table : m.id = id]
    ELSE [err |-> ErrSqlNoRows, movie |-> NoMovie]

\* MovieService.CreateMovie, the check: SELECT EXISTS(... WHERE title = ?)
MovieService_CreateMovie_Exists(table, movie, db) ==
    IF db # "ok" THEN ErrDriver
    ELSE IF \E m \in table : m.title = movie.title THEN ErrMovieExists
    ELSE NoErr

\* MovieService.CreateMovie, the statement: INSERT INTO movies; the id comes
\* from the sequence, created_at from the clock
MovieService_CreateMovie_Insert(table, seq, movie, t, db) ==
    IF db # "ok"
    THEN [err |-> ErrDriver, table |-> table, seq |-> seq, movie |-> movie]
    ELSE LET row == [movie EXCEPT !.id = seq + 1, !.created_at = t]
         IN [err |-> NoErr, table |-> table \cup {row}, seq |-> seq + 1, movie |-> row]

\* MovieService.UpdateMovie, the check:
\* SELECT EXISTS(... WHERE title = ? AND id != ?)
MovieService_UpdateMovie_Exists(table, movie, db) ==
    IF db # "ok" THEN ErrDriver
    ELSE IF \E m \in table : m.title = movie.title /\ m.id # movie.id THEN ErrTitleTaken
    ELSE NoErr

\* MovieService.UpdateMovie, the statement: UPDATE movies SET <the columns
\* whose value in the model is not the zero value> WHERE id = ?
MovieService_UpdateMovie_Update(table, movie, db) ==
    IF db # "ok" THEN [err |-> ErrDriver, table |-> table]
    ELSE [err |-> NoErr,
          table |-> {IF m.id = movie.id
                     THEN [id |-> m.id,
                           title |-> IF movie.title = "" THEN m.title ELSE movie.title,
                           description |-> IF movie.description = ""
                                           THEN m.description ELSE movie.description,
                           release_year |-> IF movie.release_year = 0
                                            THEN m.release_year ELSE movie.release_year,
                           rating |-> IF movie.rating = 0 THEN m.rating ELSE movie.rating,
                           created_at |-> IF movie.created_at = 0
                                          THEN m.created_at ELSE movie.created_at]
                     ELSE m : m \in table}]

\* json.NewEncoder(w).Encode(response) of a MovieResponse
sendMovie(op, request, status, movie) ==
    [NoReply EXCEPT !.op = op, !.request = request, !.status = status,
                    !.movie = MovieResponse(movie),
                    !.wire = EncodeValue(DOMAIN MovieResponse(movie))]

\* MovieHandler.CreateMovie up to and including the existence check
MovieHandler_CreateMovie_Check(table, body) ==
    LET movie == Movie(0, body.title, body.description, body.release_year, 0, 0)
        err == MovieService_CreateMovie_Exists(table, movie, body.db)
    IN IF ~body.json
       THEN [proceed |-> FALSE, movie |-> NoMovie,
             reply |-> httpError("CreateMovie", body, "Invalid request body",
                                 StatusBadRequest)]
       ELSE IF err # NoErr
       THEN [proceed |-> FALSE, movie |-> NoMovie,
             reply |-> httpError("CreateMovie", body, err, StatusInternalServerError)]
       ELSE [proceed |-> TRUE, movie |-> movie, reply |-> NoReply]

\* MovieHandler.CreateMovie from the INSERT on
MovieHandler_CreateMovie_Insert(table, seq, movie, body, t) ==
    LET res == MovieService_CreateMovie_Insert(table, seq, movie, t, body.db)
    IN IF res.err # NoErr
       THEN [table |-> res.table, seq |-> res.seq,
             reply |-> httpError("CreateMovie", body, res.err, StatusInternalServerError)]
       ELSE [table |-> res.table, seq |-> res.seq,
             reply |-> sendMovie("CreateMovie", body, StatusCreated, res.movie)]

\* MovieHandler.UpdateMovie up to the UpdateMovie call: parse the id, decode
\* the body, GetMovie, and copy the fields present in the body into the movie
MovieHandler_UpdateMovie_Load(table, body) ==
    LET id == body.id
        got == MovieService_GetMovie(table, Atoi(id).n, body.db)
        movie == [got.movie EXCEPT
                    !.title = IF "title" \in body.present THEN body.title ELSE @,
                    !.description = IF "description" \in body.present
                                    THEN body.description ELSE @,
                    !.release_year = IF "release_year" \in body.present
                                     THEN body.release_year ELSE @]
    IN IF Atoi(id).err
       THEN [proceed |-> FALSE, movie |-> NoMovie,
             reply |-> httpError("UpdateMovie", body, "Invalid movie ID", StatusBadRequest)]
       ELSE IF ~body.json
       THEN [proceed |-> FALSE, movie |-> NoMovie,
             reply |-> httpError("UpdateMovie", body, "Invalid request body",
                                 StatusBadRequest)]
       ELSE IF got.err # NoErr
       THEN [proceed |-> FALSE, movie |-> NoMovie,
             reply |-> httpError("UpdateMovie", body, got.err, StatusNotFound)]
       ELSE [proceed |-> TRUE, movie |-> movie, reply |-> NoReply]

\* MovieHandler.UpdateMovie: the existence check of MovieService.UpdateMovie
MovieHandler_UpdateMovie_Check(table, movie, body) ==
    LET err == MovieService_UpdateMovie_Exists(table, movie, body.db)
    IN IF err # NoErr
       THEN [proceed |-> FALSE,
             reply |-> httpError("UpdateMovie", body, err, StatusInternalServerError)]
       ELSE [proceed |-> TRUE, reply |-> NoReply]

\* MovieHandler.UpdateMovie from the UPDATE on
MovieHandler_UpdateMovie_Update(table, movie, body) ==
    LET res == MovieService_UpdateMovie_Update(table, movie, body.db)
    IN IF res.err # NoErr
       THEN [table |-> res.table,
             reply |-> httpError("UpdateMovie", body, res.err, StatusInternalServerError)]
       ELSE [table |-> res.table,
             reply |-> sendMovie("UpdateMovie", body, StatusOK, movie)]

-----------------------------------------------------------------------------
(* MovieService.DeleteMovie: three DELETE statements, one after the other,  *)
(* not in a transaction.                                                     *)

MovieCategory(movieID, categoryID) == [movie_id |-> movieID, category_id |-> categoryID]

UserFavorite(id, userID, movieID) == [id |-> id, user_id |-> userID, movie_id |-> movieID]

\* DeleteMovie with the statements in another order: the movie row first
DeleteOrder_MovieFirst == <<"movies", "movie_categories", "user_favorites">>

\* the tables DeleteMovie deletes from, in the order of its statements
DeleteOrder == <<"movie_categories", "user_favorites", "movies">>

\* the three tables DeleteMovie touches
Tables(ms, mcs, ufs) == [movies |-> ms, movie_categories |-> mcs, user_favorites |-> ufs]

\* DeleteMovie that goes on to its next statement when one has failed
MovieService_DeleteMovie_Exec_GoOn(tables, k, id, db) ==
    IF db # "ok" THEN [err |-> NoErr, tables |-> tables]
    ELSE IF DeleteOrder[k] = "movie_categories"
    THEN [err |-> NoErr,
          tables |-> [tables EXCEPT !.movie_categories = {x \in @ : x.movie_id # id}]]
    ELSE IF DeleteOrder[k] = "user_favorites"
    THEN [err |-> NoErr,
          tables |-> [tables EXCEPT !.user_favorites = {x \in @ : x.movie_id # id}]]
    ELSE [err |-> NoErr, tables |-> [tables EXCEPT !.movies = {x \in @ : x.id # id}]]

\* DeleteMovie that reports a DELETE on movies that removed no row
MovieService_DeleteMovie_Exec_RowsAffected(tables, k, id, db) ==
    IF db # "ok" THEN [err |-> ErrDriver, tables |-> tables]
    ELSE IF DeleteOrder[k] = "movie_categories"
    THEN [err |-> NoErr,
          tables |-> [tables EXCEPT !.movie_categories = {x \in @ : x.movie_id # id}]]
    ELSE IF DeleteOrder[k] = "user_favorites"
    THEN [err |-> NoErr,
          tables |-> [tables EXCEPT !.user_favorites = {x \in @ : x.movie_id # id}]]
    ELSE IF \A x \in tables.movies : x.id # id
    THEN [err |-> ErrSqlNoRows, tables |-> tables]
    ELSE [err |-> NoErr, tables |-> [tables EXCEPT !.movies = {x \in @ : x.id # id}]]

\* statement k of DeleteMovie(id) on the tables
MovieService_DeleteMovie_Exec(tables, k, id, db) ==
    IF db # "ok" THEN [err |-> ErrDriver, tables |-> tables]
    ELSE IF DeleteOrder[k] = "movie_categories"
    THEN [err |-> NoErr,
          tables |-> [tables EXCEPT !.movie_categories = {x \in @ : x.movie_id # id}]]
    ELSE IF DeleteOrder[k] = "user_favorites"
    THEN [err |-> NoErr,
          tables |-> [tables EXCEPT !.user_favorites = {x \in @ : x.movie_id # id}]]
    ELSE [err |-> NoErr, tables |-> [tables EXCEPT !.movies = {x \in @ : x.id # id}]]

\* w.WriteHeader(http.StatusNoContent)
sendNoContent(op, request) ==
    [NoReply EXCEPT !.op = op, !.request = request, !.status = StatusNoContent]

\* MovieHandler.DeleteMovie at statement k of DeleteMovie: "done" tells that
\* the handler has answered
MovieHandler_DeleteMovie_Step(tables, k, r) ==
    LET res == MovieService_DeleteMovie_Exec(tables, k, Atoi(r.id).n, r.db)
    IN IF Atoi(r.id).err
       THEN [done |-> TRUE, tables |-> tables,
             reply |-> httpError("DeleteMovie", r, "Invalid movie ID", StatusBadRequest)]
       ELSE IF res.err # NoErr
       THEN [done |-> TRUE, tables |-> res.tables,
             reply |-> httpError("DeleteMovie", r, res.err, StatusInternalServerError)]
       ELSE IF k = Len(DeleteOrder)
       THEN [done |-> TRUE, tables |-> res.tables,
             reply |-> sendNoContent("DeleteMovie", r)]
       ELSE [done |-> FALSE, tables |-> res.tables, reply |-> NoReply]

-----------------------------------------------------------------------------
(* database.CategoryDB, services.CategoryService, handlers.CategoryHandler *)

Category(id, name) == [id |-> id, name |-> name]

NoCategory == Category(0, "")

ErrCategoryNotFound == "category not found: category not found"
ErrCategoryLookup == "category not found: driver: bad connection"
ErrCategoryUsage == "failed to check category usage: driver: bad connection"
ErrCategoryInUse == "category is being used by movies"
ErrCategoryDelete == "failed to delete category: driver: bad connection"

\* CategoryDB.GetCategory
CategoryDB_GetCategory(cats, id, db) ==
    IF db # "ok" THEN [err |-> ErrDriver, category |-> NoCategory]
    ELSE IF \E c \in cats : c.id = id
    THEN [err |-> NoErr, category |-> CHOOSE c \in cats : c.id = id]
    ELSE [err |-> "category not found", category |-> NoCategory]

\* CategoryDB.CategoryInUse
CategoryDB_CategoryInUse(mcs, id, db) ==
    IF db # "ok" THEN [err |-> ErrDriver, inUse |-> FALSE]
    ELSE [err |-> NoErr, inUse |-> \E x \in mcs : x.category_id = id]

\* CategoryDB.DeleteCategory
CategoryDB_DeleteCategory(cats, id, db) ==
    IF db # "ok" THEN [err |-> ErrDriver, categories |-> cats]
    ELSE [err |-> NoErr, categories |-> {c \in cats : c.id # id}]

\* the names in the order the database collates them
NameOrder == <<"Action", "Drama", "Western">>

\* CategoryDB.GetCategories: SELECT ... ORDER BY name ASC
CategoryDB_GetCategories(cats, db) ==
    IF db # "ok" THEN [err |-> ErrDriver, categories |-> <<>>]
    ELSE [err |-> NoErr,
          categories |->
            CHOOSE q \in Perms(cats) :
                \A i, j \in 1..Len(q) :
                    i < j => \E a, b \in 1..Len(NameOrder) :
                                /\ NameOrder[a] = q[i].name /\ NameOrder[b] = q[j].name
                                /\ a <= b]

\* the outcome of each of the round trips one call makes, in order
AllOk == <<"ok", "ok", "ok">>
DbRuns == {AllOk, <<"fail", "ok", "ok">>, <<"ok", "fail", "ok">>, <<"ok", "ok", "fail">>}

\* DeleteCategory without the CategoryInUse check
CategoryService_DeleteCategory_Unchecked(cats, mcs, id, dbs) ==
    LET got == CategoryDB_GetCategory(cats, id, dbs[1])
        del == CategoryDB_DeleteCategory(cats, id, dbs[3])
    IN IF got.err # NoErr
       THEN [err |-> IF got.err = ErrDriver THEN ErrCategoryLookup ELSE ErrCategoryNotFound,
             categories |-> cats]
       ELSE IF del.err # NoErr THEN [err |-> ErrCategoryDelete, categories |-> cats]
       ELSE [err |-> NoErr, categories |-> del.categories]

\* CategoryService.DeleteCategory
CategoryService_DeleteCategory(cats, mcs, id, dbs) ==
    LET got == CategoryDB_GetCategory(cats, id, dbs[1])
        use == CategoryDB_CategoryInUse(mcs, id, dbs[2])
        del == CategoryDB_DeleteCategory(cats, id, dbs[3])
    IN IF got.err # NoErr
       THEN [err |-> IF got.err = ErrDriver THEN ErrCategoryLookup ELSE ErrCategoryNotFound,
             categories |-> cats]
       ELSE IF use.err # NoErr THEN [err |-> ErrCategoryUsage, categories |-> cats]
       ELSE IF use.inUse THEN [err |-> ErrCategoryInUse, categories |-> cats]
       ELSE IF del.err # NoErr THEN [err |-> ErrCategoryDelete, categories |-> cats]
       ELSE [err |-> NoErr, categories |-> del.categories]

\* a request with a path parameter {id}; dbs are the outcomes of its round trips
IdRequest(id, dbs) == [id |-> id, dbs |-> dbs]

\* CategoryHandler.sendError
CategoryHandler_sendError(op, request, message, status) ==
    [NoReply EXCEPT !.op = op, !.request = request, !.status = status, !.error = message,
                    !.wire = EncodeErrorResponse(message)]

\* CategoryHandler.DeleteCategory
CategoryHandler_DeleteCategory(cats, mcs, r) ==
    LET res == CategoryService_DeleteCategory(cats, mcs, Atoi(r.id).n, r.dbs)
    IN IF Atoi(r.id).err
       THEN [categories |-> cats,
             reply |-> CategoryHandler_sendError("DeleteCategory", r,
                                                 "Invalid category ID", StatusBadRequest)]
       ELSE IF res.err # NoErr
       THEN [categories |-> res.categories,
             reply |-> CategoryHandler_sendError("DeleteCategory", r, res.err,
                                                 StatusInternalServerError)]
       ELSE [categories |-> res.categories, reply |-> sendNoContent("DeleteCategory", r)]

\* CategoryResponse
CategoryResponse(c) == [id |-> c.id, name |-> c.name]

\* CategoryHandler.GetCategories
CategoryHandler_GetCategories(cats, r) ==
    LET res == CategoryDB_GetCategories(cats, r.dbs[1])
    IN IF res.err # NoErr
       THEN CategoryHandler_sendError("GetCategories", r, res.err,
                                      StatusInternalServerError)
       ELSE [NoReply EXCEPT !.op = "GetCategories", !.request = r, !.status = StatusOK,
                            !.categories = [i \in 1..Len(res.categories) |->
                                               CategoryResponse(res.categories[i])],
                            !.wire = EncodeValue({"id", "name"})]

-----------------------------------------------------------------------------
(* config.LoadConfig *)

\* A string of the configuration is a sequence of pieces, so that the
\* characters "${" and "}" of a reference can be told from the text around
\* them: ${JWT_SECRET} is <<"${", "JWT_SECRET", "}">>.
Ref(name) == <<"${", name, "}">>
Lit(text) == <<text>>

\* the fields of config.yaml that hold secrets, and whether the file can be
\* read and is YAML
ConfigFile(readable, yaml, jwtSecret, dbPassword, licenseKey) ==
    [readable |-> readable, yaml |-> yaml, jwt_secret |-> jwtSecret,
     db_password |-> dbPassword, license_key |-> licenseKey]

\* config.Config: JWT.Secret, Database.Password, NewRelic.LicenseKey
Config(jwtSecret, dbPassword, licenseKey) ==
    [jwt_secret |-> jwtSecret, db_password |-> dbPassword, license_key |-> licenseKey]

ZeroConfig == Config(<<>>, <<>>, <<>>)

ErrReadFile == "open config.yaml: no such file or directory"
ErrYaml == "yaml: unmarshal error"

\* yaml.Unmarshal(data, &config): every scalar becomes the string written
yaml_Unmarshal(file) ==
    IF ~file.yaml THEN [err |-> ErrYaml, config |-> ZeroConfig]
    ELSE [err |-> NoErr,
          config |-> Config(file.jwt_secret, file.db_password, file.license_key)]

\* config.LoadConfig(configPath): os.ReadFile, yaml.Unmarshal
LoadConfig(file) ==
    IF ~file.readable THEN [loaded |-> TRUE, err |-> ErrReadFile, config |-> ZeroConfig]
    ELSE [loaded |-> TRUE, err |-> yaml_Unmarshal(file).err,
          config |-> yaml_Unmarshal(file).config]

\* the config provider has not run
NotLoaded == [loaded |-> FALSE, err |-> NoErr, config |-> ZeroConfig]

\* the variables of the environment a configuration refers to
EnvNames == {"JWT_SECRET", "DB_PASSWORD", "NEW_RELIC_LICENSE_KEY"}

\* a config.yaml that states its secrets in the file
PlainFile == ConfigFile(TRUE, TRUE, Lit(JwtSecret), Lit("postgres"), Lit("license"))

-----------------------------------------------------------------------------
(* server.Server.Start *)

\* main: where Start is ("init" before the call, "spawned" after the go
\*       statement, "waiting" at <-quit after signal.Notify, "shutdown" inside
\*       s.server.Shutdown(ctx), "returned")
\* serve: where the goroutine with ListenAndServe is ("none", "starting",
\*       "serving", "closed")
\* proc: "up", "exited" (logger.Fatal) or "killed" (a signal nobody handles)
\* quit: the signals buffered in the quit channel, of capacity 1
\* delivered: a signal has been sent to the quit channel
\* arrived: a signal has arrived at the process
\* inflight: the requests being served
\* elapsed: the time spent of the shutdown window
\* result: what Start has returned ("nil", "forced") or "-"
ServerState(main, serve, proc, quit, delivered, arrived, inflight, elapsed, result) ==
    [main |-> main, serve |-> serve, proc |-> proc, quit |-> quit,
     delivered |-> delivered, arrived |-> arrived, inflight |-> inflight,
     elapsed |-> elapsed, result |-> result]

NotStarted == ServerState("init", "none", "up", 0, FALSE, FALSE, 0, 0, "-")

\* the server is accepting requests and Start waits for a signal
Serving == ServerState("waiting", "serving", "up", 0, FALSE, FALSE, 0, 0, "-")

ErrForced == "server forced to shutdown: context deadline exceeded"

\* Start up to and including the go statement
Server_Start_Go(s) == [s EXCEPT !.main = "spawned", !.serve = "starting"]

\* the goroutine: s.server.ListenAndServe(). It returns ErrServerClosed, which
\* is ignored, once Shutdown has been called; bound tells whether the
\* listener could be opened, and logger.Fatal ends the process when not
Server_ListenAndServe(s, bound) ==
    IF s.main \in {"shutdown", "returned"} THEN [s EXCEPT !.serve = "closed"]
    ELSE IF bound THEN [s EXCEPT !.serve = "serving"]
    ELSE [s EXCEPT !.serve = "closed", !.proc = "exited"]

\* quit := make(chan os.Signal, 1); signal.Notify(quit, SIGINT, SIGTERM)
Server_Notify(s) == [s EXCEPT !.main = "waiting"]

\* SIGINT or SIGTERM arrives: os/signal sends it to the quit channel without
\* blocking when Notify has registered it; before that the signal has its
\* default disposition and ends the process
Signal(s) ==
    IF s.main \in {"init", "spawned"}
    THEN [s EXCEPT !.proc = "killed", !.arrived = TRUE]
    ELSE [s EXCEPT !.quit = 1, !.delivered = TRUE, !.arrived = TRUE]

\* <-quit, context.WithTimeout(30 * time.Second), and the start of
\* s.server.Shutdown(ctx), which closes the listener
Server_Shutdown_Begin(s) ==
    [s EXCEPT !.main = "shutdown", !.quit = 0, !.elapsed = 0,
              !.serve = IF @ = "serving" THEN "closed" ELSE @]

\* Start that returns nil whatever Shutdown returns
Server_Shutdown_End_Nil(s) == [s EXCEPT !.main = "returned", !.result = "nil"]

\* s.server.Shutdown(ctx) returns: nil when no request is in flight, the
\* error of the context when its deadline has passed; Start returns nil or
\* the "forced to shutdown" error
Server_Shutdown_End(s) ==
    IF s.inflight = 0 THEN [s EXCEPT !.main = "returned", !.result = "nil"]
    ELSE [s EXCEPT !.main = "returned", !.result = "forced"]

-----------------------------------------------------------------------------
(* The dig container (container.BuildContainer) and server.New *)

\* a constructor handed to container.Provide: the type it returns and the
\* types of its parameters, in the order of the parameter list
Provider(out, ins) == [out |-> out, ins |-> ins]

provideCore ==
    {Provider("*config.Config", <<>>),
     Provider("*zap.Logger", <<"*config.Config">>),
     Provider("*newrelic.Application", <<"*config.Config">>)}

provideDatabase ==
    {Provider("*sql.DB", <<"*config.Config", "*zap.Logger">>),
     Provider("*bun.DB", <<"*sql.DB", "*zap.Logger">>),
     Provider("*database.AuthDB", <<"*bun.DB">>),
     Provider("*database.CategoryDB", <<"*bun.DB">>),
     Provider("*database.UserDB", <<"*bun.DB">>)}

provideServices ==
    {Provider("*services.AuthService",
              <<"*database.AuthDB", "*config.Config", "*zap.Logger">>),
     Provider("*services.CategoryService", <<"*database.CategoryDB", "*zap.Logger">>),
     Provider("*services.UserService", <<"*database.UserDB", "*zap.Logger">>)}

provideHandlers ==
    {Provider("*handlers.AuthHandler", <<"*services.AuthService", "*zap.Logger">>),
     Provider("*handlers.CategoryHandler", <<"*services.CategoryService", "*zap.Logger">>),
     Provider("*handlers.MovieHandler", <<"*services.MovieService", "*zap.Logger">>),
     Provider("*handlers.UserHandler", <<"*services.UserService", "*zap.Logger">>)}

BuildContainer == provideCore \cup provideDatabase \cup provideServices \cup provideHandlers

\* the longest chain of constructors: handler, service, repository, *bun.DB,
\* *sql.DB, *zap.Logger, *config.Config
MaxDepth == 7

\* errors are sequences of message parts; nil is the empty sequence
NilErr == <<>>
ErrMissingType(type) == <<"missing type", type>>
ErrPing == <<"failed to ping database">>

HasProvider(container, type) == \E p \in container : p.out = type

\* what the constructor itself returns once its parameters are built:
\* the config provider fails as LoadConfig fails, the *sql.DB provider fails
\* when PostgreSQL does not answer the migrations or the ping
Construct(type, loaded, db) ==
    IF type = "*config.Config" /\ loaded.err # NoErr THEN <<loaded.err>>
    ELSE IF type = "*sql.DB" /\ db # "ok" THEN ErrPing
    ELSE NilErr

RECURSIVE Container_Get(_, _, _, _, _)
RECURSIVE Container_GetAll(_, _, _, _, _)

\* dig builds a value of the type: a provider must exist, every parameter of
\* the provider must have a provider, then the parameters are built in order
\* and the constructor is called; the first error ends it
Container_Get(container, type, loaded, db, depth) ==
    IF ~HasProvider(container, type) \/ depth = 0 THEN ErrMissingType(type)
    ELSE LET p == CHOOSE q \in container : q.out = type
             missing == {i \in 1..Len(p.ins) : ~HasProvider(container, p.ins[i])}
         IN IF missing # {}
            THEN ErrMissingType(p.ins[CHOOSE i \in missing : \A j \in missing : i <= j])
            ELSE LET e == Container_GetAll(container, p.ins, loaded, db, depth - 1)
                 IN IF e # NilErr THEN e ELSE Construct(type, loaded, db)

Container_GetAll(container, types, loaded, db, depth) ==
    IF types = <<>> THEN NilErr
    ELSE LET e == Container_Get(container, Head(types), loaded, db, depth)
         IN IF e # NilErr THEN e
            ELSE Container_GetAll(container, Tail(types), loaded, db, depth)

\* c.Invoke(func(...)): the parameters of the function are built in order
Container_Invoke(container, types, loaded, db) ==
    Container_GetAll(container, types, loaded, db, MaxDepth)

\* the parameters of the two functions server.New invokes
CoreTypes == <<"*config.Config", "*zap.Logger", "*newrelic.Application">>
HandlerTypes == <<"*handlers.AuthHandler", "*handlers.MovieHandler",
                  "*handlers.CategoryHandler", "*handlers.UserHandler">>

\* stage: "init" before BuildContainer, "built" after it, "core" after the
\*        first Invoke, "ready" when New returns a server, "failed" when it
\*        returns an error
\* db:    whether PostgreSQL answers ("ok", "fail")
BootState(stage, db, err) == [stage |-> stage, db |-> db, err |-> err]

NotBuilt == BootState("init", "ok", NilErr)

\* the handlers have been constructed and handed to routes.SetupRoutes
Wired == BootState("ready", "ok", NilErr)

\* c := container.BuildContainer()
Server_New_Build(b) == [b EXCEPT !.stage = "built"]

\* the first c.Invoke of New
Server_New_Core(b, loaded) ==
    LET e == Container_Invoke(BuildContainer, CoreTypes, loaded, b.db)
    IN IF e # NilErr
       THEN [b EXCEPT !.stage = "failed", !.err = <<"failed to get dependencies">> \o e]
       ELSE [b EXCEPT !.stage = "core"]

\* the second c.Invoke of New, routes.SetupRoutes and the return
Server_New_Handlers(b, loaded) ==
    LET e == Container_Invoke(BuildContainer, HandlerTypes, loaded, b.db)
    IN IF e # NilErr
       THEN [b EXCEPT !.stage = "failed", !.err = <<"failed to get handlers">> \o e]
       ELSE [b EXCEPT !.stage = "ready"]

-----------------------------------------------------------------------------
(* A process that is up *)

\* a process that has loaded PlainFile and is serving
ProcessRunning ==
    /\ environ = [n \in EnvNames |-> <<>>]
    /\ configFile = PlainFile
    /\ cfg = LoadConfig(PlainFile)
    /\ srv = Serving
    /\ boot = Wired

-----------------------------------------------------------------------------
(* State machine *)

\* a request in the middle of no catalog operation
NoWork == [pc |-> "idle", request |-> NoMovieBody, id |-> 0, movie |-> NoMovie,
           refs |-> {}]

\* the catalog before anything is stored in it
CatalogStart ==
    /\ movies = {}
    /\ movieSeq = 0
    /\ movie_categories = {}
    /\ user_favorites = {}
    /\ categories = {}
    /\ work = [p \in Procs |-> NoWork]
    /\ reply = NoReply

Init ==
    /\ users = <<>>
    /\ pc = [p \in Procs |-> "idle"]
    /\ req = [p \in Procs |-> NoReq]
    /\ issued \in {{}, {[token |-> OrphanToken, user |-> OrphanId, at |-> 0]}}
    /\ now = 0
    /\ resp = NoResp
    /\ CatalogStart
    /\ ProcessRunning

\* the bodies a client posts to /api/auth/register
RegisterBodies ==
    {RegisterRequest(TRUE, e, "pw-one", "Ann") : e \in Emails}
    \cup {RegisterRequest(FALSE, "", "", ""),
          RegisterRequest(TRUE, "", "pw-one", "Ann"),
          RegisterRequest(TRUE, "a@x.io", "", "Ann"),
          RegisterRequest(TRUE, "a@x.io", "pw-one", "")}

\* the bodies a client posts to /api/auth/login
LoginBodies ==
    {LoginRequest(TRUE, e, pw) : e \in Emails \cup {"nobody@x.io"}, pw \in Passwords}
    \cup {LoginRequest(FALSE, "", ""),
          LoginRequest(TRUE, "", "pw-one"),
          LoginRequest(TRUE, "a@x.io", "")}

\* POST /api/auth/register, first half: decode, validate, UserExists
RegisterCheck(p) ==
    /\ resp = NoResp
    /\ pc[p] = "idle"
    /\ \E body \in RegisterBodies, db \in DbOutcomes :
         LET r == [body EXCEPT !.db = db]
             out == AuthHandler_RegisterCheck(users, r)
         IN IF out.proceed
            THEN /\ pc' = [pc EXCEPT ![p] = "insert"]
                 /\ req' = [req EXCEPT ![p] = r]
                 /\ resp' = resp
            ELSE /\ resp' = out.resp
                 /\ UNCHANGED <<pc, req>>
    /\ UNCHANGED <<users, issued, now>>
    /\ UNCHANGED catalogVars
    /\ UNCHANGED processVars

\* POST /api/auth/register, second half: authService.Register and the response
RegisterInsert(p) ==
    /\ resp = NoResp
    /\ pc[p] = "insert"
    /\ \E db \in DbOutcomes :
         LET out == AuthHandler_RegisterInsert(users, [req[p] EXCEPT !.db = db], now)
         IN /\ Len(out.table) <= MaxUsers
            /\ users' = out.table
            /\ resp' = out.resp
            /\ issued' \in (IF out.resp.status = StatusCreated
                            THEN Keep(out.resp.body.token, out.resp.body.user_id, now)
                            ELSE {issued})
    /\ pc' = [pc EXCEPT ![p] = "idle"]
    /\ req' = [req EXCEPT ![p] = NoReq]
    /\ UNCHANGED now
    /\ UNCHANGED catalogVars
    /\ UNCHANGED processVars

\* POST /api/auth/login
Login ==
    /\ resp = NoResp
    /\ \E body \in LoginBodies, db \in DbOutcomes :
         LET out == AuthHandler_Login(users, [body EXCEPT !.db = db], now)
         IN /\ resp' = out
            /\ issued' \in (IF out.status = StatusOK
                            THEN Keep(out.body.token, out.body.user_id, now)
                            ELSE {issued})
    /\ UNCHANGED <<users, pc, req, now>>
    /\ UNCHANGED catalogVars
    /\ UNCHANGED processVars

\* POST /api/auth/refresh
Refresh ==
    /\ resp = NoResp
    /\ \E header \in Headers, db \in DbOutcomes :
         LET out == AuthHandler_Refresh(users, [BearerRequest(header) EXCEPT !.db = db], now)
         IN /\ resp' = out
            /\ issued' \in (IF out.status = StatusOK
                            THEN Keep(out.body.token, out.body.user_id, now)
                            ELSE {issued})
    /\ UNCHANGED <<users, pc, req, now>>
    /\ UNCHANGED catalogVars
    /\ UNCHANGED processVars

\* a request to a route of the protected group
ProtectedRequest ==
    /\ resp = NoResp
    /\ \E header \in Headers : resp' = ProtectedRoute(BearerRequest(header), now)
    /\ UNCHANGED <<users, pc, req, issued, now>>
    /\ UNCHANGED catalogVars
    /\ UNCHANGED processVars

\* a request to a route under /admin
AdminRequest ==
    /\ resp = NoResp
    /\ \E header \in Headers, db \in DbOutcomes :
         resp' = AdminRoute(users, [BearerRequest(header) EXCEPT !.db = db], now)
    /\ UNCHANGED <<users, pc, req, issued, now>>
    /\ UNCHANGED catalogVars
    /\ UNCHANGED processVars

\* the response has been written; the connection is free for the next request
Respond ==
    /\ resp # NoResp
    /\ resp' = NoResp
    /\ UNCHANGED <<users, pc, req, issued, now>>
    /\ UNCHANGED catalogVars
    /\ UNCHANGED processVars

\* the users table is changed through AuthDB.UpdateUser (promotion, demotion, renaming)
UpdateUser ==
    /\ resp = NoResp
    /\ \E id \in 1..Len(users), isAdmin \in BOOLEAN, name \in Names :
         /\ users' = AuthDB_UpdateUser(users, [users[id] EXCEPT !.is_admin = isAdmin,
                                                               !.name = name])
         /\ users' # users
    /\ UNCHANGED <<pc, req, issued, now, resp>>
    /\ UNCHANGED catalogVars
    /\ UNCHANGED processVars

\* time passes by one tick
Tick ==
    /\ resp = NoResp
    /\ now + 1 <= MaxTime
    /\ NearBoundary(now + 1)
    /\ now' = now + 1
    /\ UNCHANGED <<users, pc, req, issued, resp>>
    /\ UNCHANGED catalogVars
    /\ UNCHANGED processVars

\* time passes from the start of a token's life to just before its end
Jump ==
    /\ resp = NoResp
    /\ now <= NearWindow
    /\ now' = now + TokenTTL - NearWindow
    /\ UNCHANGED <<users, pc, req, issued, resp>>
    /\ UNCHANGED catalogVars
    /\ UNCHANGED processVars

Next ==
    \/ \E p \in Procs : RegisterCheck(p)
    \/ \E p \in Procs : RegisterInsert(p)
    \/ Login
    \/ Refresh
    \/ ProtectedRequest
    \/ AdminRequest
    \/ Respond
    \/ UpdateUser
    \/ Tick
    \/ Jump

Spec == Init /\ [][Next]_vars

\* registration and login alone: the clock stands still, nobody presents a
\* token and nobody's row is updated
NextReg ==
    \/ \E p \in Procs : RegisterCheck(p)
    \/ \E p \in Procs : RegisterInsert(p)
    \/ Login
    \/ Respond

SpecReg == Init /\ [][NextReg]_vars

\* the bodies a client puts to /api/users/profile
ProfileBodies ==
    {[json |-> TRUE, name |-> "Cy"], [json |-> TRUE, name |-> ""],
     [json |-> FALSE, name |-> ""]}

\* a request to any route of the router
RouteRequest ==
    /\ resp = NoResp
    /\ \E route \in Routes, header \in Headers, db \in DbOutcomes :
         \E body \in (IF route.handler = "UserHandler.UpdateProfile"
                      THEN ProfileBodies ELSE {[json |-> TRUE, name |-> ""]}) :
            LET r == [BearerRequest(header) EXCEPT !.db = db, !.json = body.json,
                                                   !.name = body.name]
                out == ServeHTTP(users, route, r, now)
            IN /\ users' = out.table
               /\ resp' = out.resp
    /\ UNCHANGED <<pc, req, issued, now>>
    /\ UNCHANGED catalogVars
    /\ UNCHANGED processVars

\* the router in front of the handlers: accounts are made and promoted, tokens
\* are handed out, and requests arrive on every route; the clock stands still
NextRoutes ==
    \/ \E p \in Procs : RegisterCheck(p)
    \/ \E p \in Procs : RegisterInsert(p)
    \/ Login
    \/ UpdateUser
    \/ RouteRequest
    \/ Respond

SpecRoutes == Init /\ [][NextRoutes]_vars

-----------------------------------------------------------------------------
(* The catalog: listing *)

\* a stored catalog: four movies with equal creation times, release years and
\* ratings among them
SeedMovies ==
    { Movie(1, "Casablanca", "", 1942, 85, 0),
      Movie(2, "Alien", "about aliens", 1979, 84, 0),
      Movie(3, "Brazil", "", 1979, 84, 1),
      Movie(4, "Dune", "about aliens", 1979, 0, 1) }

\* the service has no accounts and no request in progress
AuthQuiet ==
    /\ users = <<>>
    /\ pc = [p \in Procs |-> "idle"]
    /\ req = [p \in Procs |-> NoReq]
    /\ issued = {}
    /\ now = 0
    /\ resp = NoResp

\* the service starts on a database that holds any part of the stored catalog
InitList ==
    /\ AuthQuiet
    /\ movies \in SUBSET SeedMovies
    /\ movieSeq = Cardinality(SeedMovies)
    /\ movie_categories = {}
    /\ user_favorites = {}
    /\ categories = {}
    /\ work = [p \in Procs |-> NoWork]
    /\ reply = NoReply
    /\ ProcessRunning

\* the values a client sends in the query string of GET /api/movies
PageParams == {Absent, Junk} \cup {Num(n) : n \in -1..MaxPage}
SizeParams == {Absent, Junk} \cup {Num(n) : n \in -1..MaxPageSize}
YearParams == {Absent, Junk, Num(1979)}
SearchTerms == {"", "ALI"}
SortKeys == {"", "title_asc", "title_desc", "year_asc", "year_desc", "rating_desc",
             "TITLE_ASC", "Rating_Desc", "rating_asc"}

\* GET /api/movies
GetMoviesRequest ==
    /\ reply = NoReply
    /\ \E page \in PageParams, size \in SizeParams, sortBy \in SortKeys,
          year \in YearParams, search \in SearchTerms, db \in DbOutcomes :
         reply' \in MovieHandler_GetMovies(movies,
                        MovieQuery(page, size, sortBy, year, search, db))
    /\ UNCHANGED <<movies, movieSeq, movie_categories, user_favorites, categories, work>>
    /\ UNCHANGED authVars
    /\ UNCHANGED processVars

\* the response of a catalog handler has been written
Reply ==
    /\ reply # NoReply
    /\ reply' = NoReply
    /\ UNCHANGED <<movies, movieSeq, movie_categories, user_favorites, categories, work>>
    /\ UNCHANGED authVars
    /\ UNCHANGED processVars

NextList ==
    \/ GetMoviesRequest
    \/ Reply

SpecList == InitList /\ [][NextList]_vars

-----------------------------------------------------------------------------
(* The catalog: creating and updating movies *)

AllFields == {"title", "description", "release_year"}

\* the bodies an admin posts to /api/admin/movies
CreateBodies ==
    { MovieBody(TRUE, {"title"}, "Alien", "", 0),
      MovieBody(TRUE, AllFields, "Brazil", "about aliens", 1979),
      MovieBody(FALSE, {}, "", "", 0) }

\* the bodies an admin puts to /api/admin/movies/{id}
UpdateBodies ==
    { MovieBody(TRUE, {"title"}, "Alien", "", 0),
      MovieBody(TRUE, {"title"}, "Brazil", "", 0),
      MovieBody(TRUE, {"description"}, "", "", 0),
      MovieBody(TRUE, {"release_year"}, "", "", 0),
      MovieBody(TRUE, {"description", "release_year"}, "", "a classic", 1985),
      MovieBody(FALSE, {}, "", "", 0) }

\* the path parameters an admin sends
IdParams == {Junk} \cup {Num(n) : n \in 1..MaxMovies + 1}

\* the requests that have passed the check of CreateMovie and not yet inserted
Inserting == {q \in Procs : work[q].pc = "create-insert"}

\* POST /api/admin/movies, first half: decode and the existence check
CreateMovieCheck(p) ==
    /\ reply = NoReply
    /\ work[p].pc = "idle"
    /\ movieSeq + Cardinality(Inserting) < MaxMovies
    /\ \E body \in CreateBodies, db \in DbOutcomes :
         LET r == [body EXCEPT !.db = db]
             chk == MovieHandler_CreateMovie_Check(movies, r)
         IN IF chk.proceed
            THEN /\ work' = [work EXCEPT ![p] = [NoWork EXCEPT !.pc = "create-insert",
                                                               !.request = r,
                                                               !.movie = chk.movie]]
                 /\ reply' = reply
            ELSE /\ reply' = chk.reply
                 /\ work' = work
    /\ UNCHANGED <<movies, movieSeq, movie_categories, user_favorites, categories>>
    /\ UNCHANGED authVars
    /\ UNCHANGED processVars

\* POST /api/admin/movies, second half: the INSERT and the response
CreateMovieInsert(p) ==
    /\ reply = NoReply
    /\ work[p].pc = "create-insert"
    /\ \E db \in DbOutcomes :
         LET res == MovieHandler_CreateMovie_Insert(movies, movieSeq, work[p].movie,
                        [work[p].request EXCEPT !.db = db], now)
         IN /\ movies' = res.table
            /\ movieSeq' = res.seq
            /\ reply' = res.reply
    /\ work' = [work EXCEPT ![p] = NoWork]
    /\ UNCHANGED <<movie_categories, user_favorites, categories>>
    /\ UNCHANGED authVars
    /\ UNCHANGED processVars

\* PUT /api/admin/movies/{id}, first part: parse, decode, GetMovie, copy fields
UpdateMovieLoad(p) ==
    /\ reply = NoReply
    /\ work[p].pc = "idle"
    /\ \E id \in IdParams, body \in UpdateBodies, db \in DbOutcomes :
         LET r == [body EXCEPT !.id = id, !.db = db]
             got == MovieHandler_UpdateMovie_Load(movies, r)
         IN IF got.proceed
            THEN /\ work' = [work EXCEPT ![p] = [NoWork EXCEPT !.pc = "update-check",
                                                               !.request = r,
                                                               !.id = got.movie.id,
                                                               !.movie = got.movie]]
                 /\ reply' = reply
            ELSE /\ reply' = got.reply
                 /\ work' = work
    /\ UNCHANGED <<movies, movieSeq, movie_categories, user_favorites, categories>>
    /\ UNCHANGED authVars
    /\ UNCHANGED processVars

\* PUT /api/admin/movies/{id}, second part: the existence check of UpdateMovie
UpdateMovieCheck(p) ==
    /\ reply = NoReply
    /\ work[p].pc = "update-check"
    /\ \E db \in DbOutcomes :
         LET r == [work[p].request EXCEPT !.db = db]
             chk == MovieHandler_UpdateMovie_Check(movies, work[p].movie, r)
         IN IF chk.proceed
            THEN /\ work' = [work EXCEPT ![p].pc = "update-write"]
                 /\ reply' = reply
            ELSE /\ reply' = chk.reply
                 /\ work' = [work EXCEPT ![p] = NoWork]
    /\ UNCHANGED <<movies, movieSeq, movie_categories, user_favorites, categories>>
    /\ UNCHANGED authVars
    /\ UNCHANGED processVars

\* PUT /api/admin/movies/{id}, third part: the UPDATE and the response
UpdateMovieWrite(p) ==
    /\ reply = NoReply
    /\ work[p].pc = "update-write"
    /\ \E db \in DbOutcomes :
         LET res == MovieHandler_UpdateMovie_Update(movies, work[p].movie,
                        [work[p].request EXCEPT !.db = db])
         IN /\ movies' = res.table
            /\ reply' = res.reply
    /\ work' = [work EXCEPT ![p] = NoWork]
    /\ UNCHANGED <<movieSeq, movie_categories, user_favorites, categories>>
    /\ UNCHANGED authVars
    /\ UNCHANGED processVars

InitMovies == AuthQuiet /\ CatalogStart /\ ProcessRunning

NextMovies ==
    \/ \E p \in Procs : CreateMovieCheck(p)
    \/ \E p \in Procs : CreateMovieInsert(p)
    \/ \E p \in Procs : UpdateMovieLoad(p)
    \/ \E p \in Procs : UpdateMovieCheck(p)
    \/ \E p \in Procs : UpdateMovieWrite(p)
    \/ Reply

SpecMovies == InitMovies /\ [][NextMovies]_vars

-----------------------------------------------------------------------------
(* The catalog: deleting movies and categories *)

\* the accounts of the stored database
SeedUsers ==
    << User(1, "a@x.io", GenerateFromPassword("pw-one"), "Ann", TRUE),
       User(2, "b@x.io", GenerateFromPassword("pw-two"), "Bob", FALSE) >>

SeedCategories == { Category(1, "Action"), Category(2, "Drama") }

\* the movies of the stored database
StoredMovies == {m \in SeedMovies : m.id <= MaxMovies}

\* rows of the stored database that may or may not be there
SomeAssociations ==
    {MovieCategory(m.id, c.id) : m \in StoredMovies, c \in SeedCategories}
        \ {MovieCategory(1, 1)}
SomeFavorites == {UserFavorite(2, 2, 1), UserFavorite(3, 1, 2)}

\* the service starts on a stored database in which movie 1 is in category 1
\* and is a favorite of user 1; every row references rows that exist
InitDelete ==
    /\ users = SeedUsers
    /\ pc = [p \in Procs |-> "idle"]
    /\ req = [p \in Procs |-> NoReq]
    /\ issued = {}
    /\ now = 0
    /\ resp = NoResp
    /\ movies = StoredMovies
    /\ movieSeq = Cardinality(SeedMovies)
    /\ \E S \in SUBSET SomeAssociations : movie_categories = S \cup {MovieCategory(1, 1)}
    /\ \E S \in SUBSET SomeFavorites : user_favorites = S \cup {UserFavorite(1, 1, 1)}
    /\ categories = SeedCategories
    /\ work = [p \in Procs |-> NoWork]
    /\ reply = NoReply
    /\ ProcessRunning

\* the position of a DeleteMovie call that has run k - 1 statements
DeletePc == <<"delete-1", "delete-2", "delete-3">>
DeletePcs == {DeletePc[k] : k \in 2..Len(DeletePc)}
StepOf(at) == CHOOSE k \in 1..Len(DeletePc) : DeletePc[k] = at

\* the rows that reference movie id
RefsTo(mcs, ufs, id) == {x \in mcs \cup ufs : x.movie_id = id}

\* DELETE /api/admin/movies/{id}: parse the id, the first DELETE statement
DeleteMovieBegin(p) ==
    /\ reply = NoReply
    /\ work[p].pc = "idle"
    /\ \E id \in IdParams, db \in DbOutcomes :
         LET r == [id |-> id, db |-> db]
             res == MovieHandler_DeleteMovie_Step(
                        Tables(movies, movie_categories, user_favorites), 1, r)
         IN /\ movies' = res.tables.movies
            /\ movie_categories' = res.tables.movie_categories
            /\ user_favorites' = res.tables.user_favorites
            /\ reply' = res.reply
            /\ work' = IF res.done THEN work
                       ELSE [work EXCEPT ![p] =
                               [NoWork EXCEPT !.pc = DeletePc[2], !.request = r,
                                              !.id = Atoi(id).n,
                                              !.refs = RefsTo(movie_categories,
                                                              user_favorites, Atoi(id).n)]]
    /\ UNCHANGED <<movieSeq, categories>>
    /\ UNCHANGED authVars
    /\ UNCHANGED processVars

\* DELETE /api/admin/movies/{id}: the next DELETE statement, and the response
\* after the last
DeleteMovieStep(p) ==
    /\ reply = NoReply
    /\ work[p].pc \in DeletePcs
    /\ \E db \in DbOutcomes :
         LET r == [work[p].request EXCEPT !.db = db]
             k == StepOf(work[p].pc)
             res == MovieHandler_DeleteMovie_Step(
                        Tables(movies, movie_categories, user_favorites), k, r)
         IN /\ movies' = res.tables.movies
            /\ movie_categories' = res.tables.movie_categories
            /\ user_favorites' = res.tables.user_favorites
            /\ reply' = res.reply
            /\ work' = IF res.done THEN [work EXCEPT ![p] = NoWork]
                       ELSE [work EXCEPT ![p].pc = DeletePc[k + 1]]
    /\ UNCHANGED <<movieSeq, categories>>
    /\ UNCHANGED authVars
    /\ UNCHANGED processVars

\* DELETE /api/admin/categories/{id}. No code inserts into movie_categories,
\* so the three round trips of the call see the same answers whatever runs
\* between them, and they are taken in one step.
DeleteCategoryRequest ==
    /\ reply = NoReply
    /\ \E id \in IdParams, dbs \in DbRuns :
         LET res == CategoryHandler_DeleteCategory(categories, movie_categories,
                                                   IdRequest(id, dbs))
         IN /\ categories' = res.categories
            /\ reply' = res.reply
    /\ UNCHANGED <<movies, movieSeq, movie_categories, user_favorites, work>>
    /\ UNCHANGED authVars
    /\ UNCHANGED processVars

\* GET /api/categories
GetCategoriesRequest ==
    /\ reply = NoReply
    /\ \E db \in DbOutcomes :
         reply' = CategoryHandler_GetCategories(categories,
                                                IdRequest(Absent, <<db, "ok", "ok">>))
    /\ UNCHANGED <<movies, movieSeq, movie_categories, user_favorites, categories, work>>
    /\ UNCHANGED authVars
    /\ UNCHANGED processVars

NextDelete ==
    \/ \E p \in Procs : DeleteMovieBegin(p)
    \/ \E p \in Procs : DeleteMovieStep(p)
    \/ DeleteCategoryRequest
    \/ GetCategoriesRequest
    \/ Reply

SpecDelete == InitDelete /\ [][NextDelete]_vars

-----------------------------------------------------------------------------
(* Start-up: loading the configuration *)

\* what a secret of config.yaml may be written as
SecretTexts(name) == {Lit("in-file"), Ref(name), Lit("pre-") \o Ref(name)}

\* the values a variable of the environment may have; <<>> is unset or empty
EnvValues == {<<>>, Lit("from-env")}

ConfigFiles ==
    {ConfigFile(TRUE, TRUE, j, d, l) : j \in SecretTexts("JWT_SECRET"),
                                       d \in SecretTexts("DB_PASSWORD"),
                                       l \in SecretTexts("NEW_RELIC_LICENSE_KEY")}
        \cup {ConfigFile(FALSE, TRUE, <<>>, <<>>, <<>>),
              ConfigFile(TRUE, FALSE, <<>>, <<>>, <<>>)}

\* a process that has not read its configuration yet
InitConfig ==
    /\ AuthQuiet
    /\ CatalogStart
    /\ environ \in [EnvNames -> EnvValues]
    /\ configFile \in ConfigFiles
    /\ cfg = NotLoaded
    /\ srv = NotStarted
    /\ boot = NotBuilt

\* the config provider: config.LoadConfig("config.yaml")
ProvideConfig ==
    /\ ~cfg.loaded
    /\ cfg' = LoadConfig(configFile)
    /\ UNCHANGED <<environ, configFile, srv, boot>>
    /\ UNCHANGED authVars
    /\ UNCHANGED catalogVars

NextConfig == ProvideConfig

SpecConfig == InitConfig /\ [][NextConfig]_vars

-----------------------------------------------------------------------------
(* server.New: the container is built and asked for the handlers *)

InitNew ==
    /\ AuthQuiet
    /\ CatalogStart
    /\ environ \in [EnvNames -> EnvValues]
    /\ configFile \in ConfigFiles
    /\ cfg = NotLoaded
    /\ srv = NotStarted
    /\ boot \in {BootState("init", db, NilErr) : db \in {"ok", "fail"}}

KeepNew ==
    /\ UNCHANGED <<environ, configFile, srv>>
    /\ UNCHANGED authVars
    /\ UNCHANGED catalogVars

NewBuild ==
    /\ boot.stage = "init"
    /\ boot' = Server_New_Build(boot)
    /\ UNCHANGED cfg
    /\ KeepNew

\* the config provider runs inside the first Invoke
NewCore ==
    /\ boot.stage = "built"
    /\ cfg' = LoadConfig(configFile)
    /\ boot' = Server_New_Core(boot, LoadConfig(configFile))
    /\ KeepNew

NewHandlers ==
    /\ boot.stage = "core"
    /\ boot' = Server_New_Handlers(boot, cfg)
    /\ UNCHANGED cfg
    /\ KeepNew

NextNew == NewBuild \/ NewCore \/ NewHandlers

SpecNew == InitNew /\ [][NextNew]_vars

-----------------------------------------------------------------------------
(* The server: start, signal, graceful shutdown *)

\* server.New has returned a server; Start has not been called
InitServer ==
    /\ AuthQuiet
    /\ CatalogStart
    /\ environ = [n \in EnvNames |-> <<>>]
    /\ configFile = PlainFile
    /\ cfg = LoadConfig(PlainFile)
    /\ srv = NotStarted
    /\ boot = Wired

RestUnchanged ==
    /\ UNCHANGED <<environ, configFile, cfg, boot>>
    /\ UNCHANGED authVars
    /\ UNCHANGED catalogVars

Up == srv.proc = "up"

\* Start is called
StartCall ==
    /\ Up /\ srv.main = "init"
    /\ srv' = Server_Start_Go(srv)
    /\ RestUnchanged

\* the goroutine runs ListenAndServe
ListenAndServe ==
    /\ Up /\ srv.serve = "starting"
    /\ \E bound \in BOOLEAN : srv' = Server_ListenAndServe(srv, bound)
    /\ RestUnchanged

\* Start registers for the signals and blocks at <-quit
Notify ==
    /\ Up /\ srv.main = "spawned"
    /\ srv' = Server_Notify(srv)
    /\ RestUnchanged

\* the operating system delivers SIGINT or SIGTERM
SignalArrives ==
    /\ Up /\ srv.main \notin {"init", "returned"}
    /\ srv' = Signal(srv)
    /\ RestUnchanged

\* a connection is accepted and its request handled
Accept ==
    /\ Up /\ srv.serve = "serving"
    /\ srv.inflight < MaxInflight
    /\ srv' = [srv EXCEPT !.inflight = @ + 1]
    /\ RestUnchanged

\* a request in flight is answered
Finish ==
    /\ Up /\ srv.inflight > 0
    /\ srv' = [srv EXCEPT !.inflight = @ - 1]
    /\ RestUnchanged

\* Start receives from quit and calls Shutdown
ShutdownBegin ==
    /\ Up /\ srv.main = "waiting" /\ srv.quit > 0
    /\ srv' = Server_Shutdown_Begin(srv)
    /\ RestUnchanged

\* time passes inside the shutdown window
ShutdownTick ==
    /\ Up /\ srv.main = "shutdown" /\ srv.elapsed < ShutdownWindow
    /\ srv' = [srv EXCEPT !.elapsed = @ + 1]
    /\ RestUnchanged

\* Shutdown returns: the requests have drained, or the window is over
ShutdownEnd ==
    /\ Up /\ srv.main = "shutdown"
    /\ srv.inflight = 0 \/ srv.elapsed = ShutdownWindow
    /\ srv' = Server_Shutdown_End(srv)
    /\ RestUnchanged

NextServer ==
    \/ StartCall
    \/ ListenAndServe
    \/ Notify
    \/ SignalArrives
    \/ Accept
    \/ Finish
    \/ ShutdownBegin
    \/ ShutdownTick
    \/ ShutdownEnd

\* A goroutine that can run does run, and the timer of the shutdown context
\* fires; requests in flight need not ever finish.
SpecServer ==
    /\ InitServer
    /\ [][NextServer]_vars
    /\ WF_vars(ShutdownBegin)
    /\ WF_vars(ShutdownTick)
    /\ WF_vars(ShutdownEnd)

-----------------------------------------------------------------------------
(* Logins and refreshes of registered users, every token kept *)

\* the service runs on a database with two accounts
InitSessions ==
    /\ users = SeedUsers
    /\ pc = [p \in Procs |-> "idle"]
    /\ req = [p \in Procs |-> NoReq]
    /\ issued = {}
    /\ now = 0
    /\ resp = NoResp
    /\ CatalogStart
    /\ ProcessRunning

\* the clients keep every token they are given, up to MaxHeld
Hold(token, userID, t) ==
    LET e == [token |-> token, user |-> userID, at |-> t]
    IN IF Cardinality(issued \cup {e}) <= MaxHeld THEN issued \cup {e} ELSE issued

\* POST /api/auth/login
LoginHold ==
    /\ resp = NoResp
    /\ \E body \in LoginBodies, db \in DbOutcomes :
         LET out == AuthHandler_Login(users, [body EXCEPT !.db = db], now)
         IN /\ resp' = out
            /\ issued' = IF out.status = StatusOK
                         THEN Hold(out.body.token, out.body.user_id, now)
                         ELSE issued
    /\ UNCHANGED <<users, pc, req, now>>
    /\ UNCHANGED catalogVars
    /\ UNCHANGED processVars

\* POST /api/auth/refresh
RefreshHold ==
    /\ resp = NoResp
    /\ \E header \in Headers, db \in DbOutcomes :
         LET out == AuthHandler_Refresh(users, [BearerRequest(header) EXCEPT !.db = db], now)
         IN /\ resp' = out
            /\ issued' = IF out.status = StatusOK
                         THEN Hold(out.body.token, out.body.user_id, now)
                         ELSE issued
    /\ UNCHANGED <<users, pc, req, now>>
    /\ UNCHANGED catalogVars
    /\ UNCHANGED processVars

NextSessions ==
    \/ LoginHold
    \/ RefreshHold
    \/ ProtectedRequest
    \/ UpdateUser
    \/ Respond
    \/ Tick
    \/ Jump

SpecSessions == InitSessions /\ [][NextSessions]_vars

-----------------------------------------------------------------------------
(* The users table under the operations of the services *)

\* the service runs on a database whose one account is an admin
InitUsers ==
    /\ users = <<SeedUsers[1]>>
    /\ pc = [p \in Procs |-> "idle"]
    /\ req = [p \in Procs |-> NoReq]
    /\ issued = {}
    /\ now = 0
    /\ resp = NoResp
    /\ CatalogStart
    /\ ProcessRunning

\* the user a call of UserService.UpdateUser has loaded and renamed
Loaded(user) == [user |-> user]

\* UserService.UpdateUser(id, name), first half: GetUser and the new name
UpdateUserLoad(p) ==
    /\ resp = NoResp
    /\ pc[p] = "idle"
    /\ \E id \in 1..MaxUsers + 1, name \in Names \cup {""}, db \in DbOutcomes :
         LET got == UserService_UpdateUser_Load(users, id, name, db)
         IN /\ got.err = NoErr
            /\ pc' = [pc EXCEPT ![p] = "update-user"]
            /\ req' = [req EXCEPT ![p] = Loaded(got.user)]
    /\ UNCHANGED <<users, issued, now, resp>>
    /\ UNCHANGED catalogVars
    /\ UNCHANGED processVars

\* UserService.UpdateUser(id, name), second half: UserDB.UpdateUser
UpdateUserWrite(p) ==
    /\ resp = NoResp
    /\ pc[p] = "update-user"
    /\ \E db \in DbOutcomes :
         users' = UserService_UpdateUser_Write(users, req[p].user, db).table
    /\ pc' = [pc EXCEPT ![p] = "idle"]
    /\ req' = [req EXCEPT ![p] = NoReq]
    /\ UNCHANGED <<issued, now, resp>>
    /\ UNCHANGED catalogVars
    /\ UNCHANGED processVars

NextUsers ==
    \/ \E p \in Procs : RegisterCheck(p)
    \/ \E p \in Procs : RegisterInsert(p)
    \/ Login
    \/ Refresh
    \/ AdminRequest
    \/ Respond
    \/ UpdateUser
    \/ \E p \in Procs : UpdateUserLoad(p)
    \/ \E p \in Procs : UpdateUserWrite(p)

SpecUsers == InitUsers /\ [][NextUsers]_vars

-----------------------------------------------------------------------------
(* Vocabulary of the properties, stated without the handlers' own code *)

\* the header is exactly "Bearer <token>"
IsBearerForm(h) ==
    Len(h) = 3 /\ h[1] = Word("Bearer") /\ h[2] = Space /\ h[3].k = "token"

BearerOf(h) == h[3].t

\* the token was signed with the configured secret by an HMAC method
WellSigned(tok) ==
    /\ tok.fmt = "jwt"
    /\ tok.alg \in {"HS256", "HS384", "HS512"}
    /\ tok.sig = [alg |-> tok.alg, claims |-> tok.claims, key |-> JwtSecret]

\* the token is one the codec accepts at time t
Accepted(tok, t) == WellSigned(tok) /\ t < tok.claims.exp

\* the request carries a bearer token the codec accepts now
PassedAuth(r) == IsBearerForm(r.auth) /\ Accepted(BearerOf(r.auth), now)

HasRow(id) == id \in 1..Len(users)

\* no response is waiting to be written: the state between two requests. Every
\* store, clock and set of held tokens the system reaches is reached in such a
\* state, so a property of the services' results for all inputs is evaluated
\* there.
Idle == resp.op = ""

-----------------------------------------------------------------------------
(* Properties *)

\* C1: a request that reaches the admin-authorization stage is handed to the
\* downstream handler only if its context carries a non-zero user id and the
\* store says that user is an admin; otherwise the handler is not invoked and
\* the answer is 401 without a user id, 500 when the IsAdmin lookup fails and
\* 403 when the persisted flag is false.
C1_AdminGate ==
    /\ \A db \in DbOutcomes :
         LET out == AuthHandler_AdminMiddleware(users, "admin", [NoReq EXCEPT !.db = db], 0)
         IN ~out.next /\ out.status = StatusUnauthorized
    /\ (resp.op = "admin" /\ PassedAuth(resp.request)) =>
         LET uid == BearerOf(resp.request.auth).claims.user_id
             found == resp.request.db = "ok" /\ HasRow(uid)
         IN /\ resp.next <=> (uid # 0 /\ found /\ users[uid].is_admin)
            /\ uid = 0 => resp.status = StatusUnauthorized
            /\ (uid # 0 /\ ~found) => resp.status = StatusInternalServerError
            /\ (uid # 0 /\ found /\ ~users[uid].is_admin) => resp.status = StatusForbidden

\* C1 witness: an admin request was handed to the downstream handler
C1_Witness ==
    /\ resp.op = "admin" /\ resp.next
    /\ HasRow(resp.ctxUserID) /\ users[resp.ctxUserID].is_admin

\* C2: the admin stage decides from the persisted flag at the time of the
\* request, never from the token: a still valid token issued with is_admin=true
\* never passes once the flag is false and is answered 403 when the lookup
\* succeeds; a still valid token issued with is_admin=false passes once the
\* flag is true.
C2_PersistedFlagDecides ==
    (/\ resp.op = "admin"
     /\ PassedAuth(resp.request)
     /\ \E e \in issued : e.token = BearerOf(resp.request.auth)) =>
        LET tok == BearerOf(resp.request.auth)
            uid == tok.claims.user_id
        IN /\ (tok.claims.is_admin /\ HasRow(uid) /\ ~users[uid].is_admin) =>
                 /\ ~resp.next
                 /\ resp.request.db = "ok" => resp.status = StatusForbidden
           /\ (~tok.claims.is_admin /\ HasRow(uid) /\ users[uid].is_admin
               /\ resp.request.db = "ok") => resp.next

\* C2 witness: a demoted user's token, issued with is_admin=true, got 403
C2_Witness ==
    /\ resp.op = "admin" /\ resp.status = StatusForbidden
    /\ IsBearerForm(resp.request.auth)
    /\ BearerOf(resp.request.auth).claims.is_admin
    /\ \E e \in issued : e.token = BearerOf(resp.request.auth)

\* C3: the authentication stage hands a request to the downstream handler iff
\* its Authorization header is exactly "Bearer <token>" and the token is
\* accepted; the user id put in the context is the one in the token's claims;
\* every other request is answered 401 and nothing downstream runs.
C3_AuthGate ==
    /\ resp.op = "protected" =>
         /\ resp.next <=> PassedAuth(resp.request)
         /\ resp.next => resp.ctxUserID = BearerOf(resp.request.auth).claims.user_id
         /\ ~resp.next => (resp.status = StatusUnauthorized /\ resp.body = NoBody)
    /\ (resp.op = "admin" /\ ~PassedAuth(resp.request)) =>
         (~resp.next /\ resp.status = StatusUnauthorized)

\* C3 witness: a request on a protected route passed the authentication stage
C3_Witness ==
    /\ resp.op = "protected" /\ resp.next
    /\ resp.ctxUserID \in 1..Len(users)

\* the instant a token issued at time t expires: t + 24 hours, cut down to a
\* whole second
ExpiryOf(t) == ((t + 24 * 3600 * TicksPerSecond) \div TicksPerSecond) * TicksPerSecond

\* the request of the last response carried token tok as "Bearer <token>"
Carried(tok) == IsBearerForm(resp.request.auth) /\ BearerOf(resp.request.auth) = tok

\* C4 as stated: a token issued at time t is accepted, yielding its user's id,
\* at every time strictly before t + 24 hours and rejected with ErrInvalidToken
\* at every time at or after t + 24 hours.
C4_Original ==
    \A e \in issued :
        LET v == AuthService_ValidateToken(e.token, now)
        IN IF now < e.at + TokenTTL
           THEN v.err = NoErr /\ v.userID = e.user
           ELSE v.err = ErrInvalidToken

\* C4 amended: a token issued at time t is accepted, yielding its user's id, at
\* every time strictly before its expiry instant, which is t + 24 hours cut
\* down to a whole second, and rejected with ErrInvalidToken at and after that
\* instant; the instant depends on t alone, so nothing that happens after the
\* issue moves it.
C4_ExpiryTruncated ==
    /\ \A e \in issued :
         LET v == AuthService_ValidateToken(e.token, now)
         IN /\ e.token.claims.exp = ExpiryOf(e.at)
            /\ e.at + TokenTTL - TicksPerSecond < ExpiryOf(e.at)
            /\ ExpiryOf(e.at) <= e.at + TokenTTL
            /\ IF now < ExpiryOf(e.at)
               THEN v.err = NoErr /\ v.userID = e.user
               ELSE v.err = ErrInvalidToken
    /\ \A e \in issued :
         (resp.op = "protected" /\ Carried(e.token)) =>
            IF now < ExpiryOf(e.at)
            THEN resp.next /\ resp.ctxUserID = e.user
            ELSE ~resp.next /\ resp.status = StatusUnauthorized

\* C4 witness: a token issued inside a second was refused at its expiry
\* instant, before 24 hours had passed since its issue
C4_Witness ==
    \E e \in issued :
        /\ e.at % TicksPerSecond # 0
        /\ ExpiryOf(e.at) <= now /\ now < e.at + TokenTTL
        /\ resp.op = "protected" /\ Carried(e.token)
        /\ resp.status = StatusUnauthorized

\* C5: ValidateToken and RefreshToken reject every token not signed with the
\* configured secret by an HMAC method (tampered claims, another secret, no or
\* a non-HMAC algorithm) and every string that is no token; bad signature,
\* expiry and malformation all come out as the one ErrInvalidToken, which the
\* handlers answer with 401 "Invalid or expired token".
C5_RejectsForgeries ==
    /\ \A tok \in Held \cup {JunkToken} \cup UNION {Forgeries(h) : h \in Held} :
         (Idle /\ ~Accepted(tok, now)) =>
            /\ AuthService_ValidateToken(tok, now).err = ErrInvalidToken
            /\ \A db \in DbOutcomes :
                 AuthService_RefreshToken(users, tok, now, db).err = ErrInvalidToken
    /\ (/\ resp.op \in {"protected", "admin", "refresh"}
        /\ IsBearerForm(resp.request.auth)
        /\ ~Accepted(BearerOf(resp.request.auth), now)) =>
           /\ resp.status = StatusUnauthorized
           /\ resp.error = "Invalid or expired token"
           /\ ~resp.next
           /\ resp.body = NoBody

\* C5 witness: a refresh with a held token re-signed under another secret,
\* not yet expired, was answered 401
C5_Witness ==
    /\ resp.op = "refresh" /\ resp.status = StatusUnauthorized
    /\ \E tok \in Held :
         /\ Carried(SignedString("HS256", tok.claims, "other-secret"))
         /\ now < tok.claims.exp /\ HasRow(tok.claims.user_id)

\* the table has a row with this email
Registered(table, email) == \E i \in 1..Len(table) : table[i].email = email

\* a login body with the database reachable
LoginOf(email, password) == [LoginRequest(TRUE, email, password) EXCEPT !.db = "ok"]

C7_LoginIndistinguishable ==
    /\ \A i \in 1..Len(users), pw \in Passwords,
          e2 \in Emails \cup {"nobody@x.io"}, pw2 \in Passwords :
         (Idle /\ users[i].password.digest # pw /\ ~Registered(users, e2)) =>
            LET a == AuthHandler_Login(users, LoginOf(users[i].email, pw), now)
                b == AuthHandler_Login(users, LoginOf(e2, pw2), now)
                sa == AuthService_Login(users, users[i].email, pw, now, "ok")
                sb == AuthService_Login(users, e2, pw2, now, "ok")
            IN /\ sa.err = ErrInvalidCredentials /\ sb.err = ErrInvalidCredentials
               /\ a.status = StatusUnauthorized /\ b.status = StatusUnauthorized
               /\ a.error = b.error /\ a.body = b.body /\ a.next = b.next
    /\ (/\ resp.op = "login" /\ resp.request.json
        /\ resp.request.email # "" /\ resp.request.password # ""
        /\ \A i \in 1..Len(users) :
              users[i].email = resp.request.email =>
                 users[i].password.digest # resp.request.password) =>
           /\ resp.status = StatusUnauthorized
           /\ resp.error = "Invalid email or password"
           /\ resp.body = NoBody

\* C7 witness: a login with a registered email and a wrong password got 401
C7_Witness ==
    /\ resp.op = "login" /\ resp.status = StatusUnauthorized
    /\ resp.request.db = "ok"
    /\ Registered(users, resp.request.email)

EmailUnique(table) ==
    \A i, j \in 1..Len(table) : table[i].email = table[j].email => i = j

\* C8: no two rows of the users table ever have the same email, under every
\* interleaving of registrations; an insert made after the pre-check for an
\* email another registration has inserted in the meantime is rejected by the
\* store and leaves the table alone, and an insert for an email that is still
\* absent adds exactly that row (the database answering).
C8_EmailUnique ==
    [][ /\ EmailUnique(users')
        /\ \A p \in Procs :
             (pc[p] = "insert" /\ pc'[p] = "idle" /\ resp'.request.db = "ok") =>
                IF Registered(users, req[p].email)
                THEN users' = users /\ resp'.status # StatusCreated
                ELSE /\ users' = Append(users, users'[Len(users')])
                     /\ users'[Len(users')].email = req[p].email
                     /\ resp'.status = StatusCreated ]_vars

\* C8 witness: a registration that had passed the pre-check was rejected by the
\* store because another one had inserted the email first
C8_Witness ==
    /\ resp.op = "register"
    /\ resp.error = ErrCreateUserUnique
    /\ Cardinality({i \in 1..Len(users) : users[i].email = resp.request.email}) = 1

\* C9: a registration rejected because its email is already registered is
\* answered 409 Conflict, whether the pre-check or the insert finds the
\* duplicate.
C9_DuplicateIsConflict ==
    (/\ resp.op = "register" /\ resp.status # StatusCreated
     /\ resp.request.json /\ resp.request.db = "ok"
     /\ resp.request.email # "" /\ resp.request.password # "" /\ resp.request.name # ""
     /\ Registered(users, resp.request.email)) =>
        resp.status = StatusConflict

\* C10: RefreshToken fails with ErrInvalidToken whenever the codec rejects the
\* token, whatever the store holds; otherwise with ErrUserNotFound when the
\* token's user has no row; otherwise (the database answering) it returns a new
\* token whose claims and response fields are the values persisted now, not
\* those of the token presented.
C10_RefreshUsesPersisted ==
    /\ \A tok \in Held \cup {JunkToken} \cup UNION {Forgeries(h) : h \in Held},
          db \in DbOutcomes :
         LET r == AuthService_RefreshToken(users, tok, now, db)
             uid == tok.claims.user_id
         IN Idle =>
            /\ ~Accepted(tok, now) => r.err = ErrInvalidToken
            /\ (Accepted(tok, now) /\ ~HasRow(uid)) => r.err = ErrUserNotFound
            /\ (Accepted(tok, now) /\ HasRow(uid) /\ db = "ok") =>
                 /\ r.err = NoErr
                 /\ r.body.user_id = uid
                 /\ r.body.email = users[uid].email
                 /\ r.body.name = users[uid].name
                 /\ r.body.is_admin = users[uid].is_admin
                 /\ r.body.token.claims.user_id = uid
                 /\ r.body.token.claims.email = users[uid].email
                 /\ r.body.token.claims.is_admin = users[uid].is_admin
                 /\ r.body.token.claims.exp = ExpiryOf(now)
                 /\ Accepted(r.body.token, now)
    /\ (resp.op = "refresh" /\ resp.status = StatusOK) =>
         LET uid == resp.body.user_id
         IN /\ HasRow(uid)
            /\ resp.body.email = users[uid].email
            /\ resp.body.name = users[uid].name
            /\ resp.body.is_admin = users[uid].is_admin
            /\ resp.body.token.claims.is_admin = users[uid].is_admin
            /\ resp.body.token.claims.email = users[uid].email

\* C10 witness: a user promoted after the token was issued refreshed it and got
\* is_admin=true
C10_Witness ==
    /\ resp.op = "refresh" /\ resp.status = StatusOK
    /\ resp.body.is_admin /\ resp.body.token.claims.is_admin
    /\ ~BearerOf(resp.request.auth).claims.is_admin

-----------------------------------------------------------------------------
(* The profile routes and the route table *)

ProfileHandlers == {"UserHandler.GetProfile", "UserHandler.UpdateProfile"}

\* C11: a request to GET or PUT /api/users/profile that passes the
\* authentication stage is served for the authenticated user: it is not
\* answered 401, and with the database answering GetProfile returns that user's
\* record and UpdateProfile with a valid body stores the new name in it.
C11_ProfileServed ==
    (resp.op \in ProfileHandlers /\ PassedAuth(resp.request)) =>
        LET uid == BearerOf(resp.request.auth).claims.user_id
        IN /\ resp.status # StatusUnauthorized
           /\ (resp.request.db = "ok" /\ HasRow(uid)
               /\ (resp.op = "UserHandler.UpdateProfile" =>
                      resp.request.json /\ resp.request.name # "")) =>
                 /\ resp.status = StatusOK
                 /\ resp.body = UserResponse(users[uid])
                 /\ resp.op = "UserHandler.UpdateProfile" =>
                      users[uid].name = resp.request.name

\* the handlers that create, update or delete a movie or a category, or list
\* or read other users
PrivilegedHandlers ==
    {"MovieHandler.CreateMovie", "MovieHandler.UpdateMovie", "MovieHandler.DeleteMovie",
     "CategoryHandler.CreateCategory", "CategoryHandler.DeleteCategory",
     "UserHandler.ListUsers", "UserHandler.GetUser"}

\* C12: every route to a handler that creates, updates or deletes a movie or
\* a category, or lists or reads other users, runs the authentication stage
\* first and the admin stage second, so such a handler is invoked only for a
\* request with an accepted token whose user's persisted admin flag is true;
\* the public routes run neither stage, their handlers are invoked whatever
\* the Authorization header is.
C12_PrivilegedBehindBothStages ==
    /\ \A route \in Routes :
         /\ route.handler \in PrivilegedHandlers =>
              route.use = <<"AuthMiddleware", "AdminMiddleware">>
         /\ route \in PublicRoutes => route.use = <<>>
    /\ (resp.op \in PrivilegedHandlers /\ resp.next) =>
         LET uid == BearerOf(resp.request.auth).claims.user_id
         IN /\ PassedAuth(resp.request)
            /\ HasRow(uid) /\ users[uid].is_admin
            /\ resp.ctxUserID = uid
    /\ (resp.op \in PrivilegedHandlers /\ ~resp.next) =>
         resp.status \in {StatusUnauthorized, StatusForbidden, StatusInternalServerError}
    /\ resp.op \in {route.handler : route \in PublicRoutes} => resp.next

\* C12 witness: with two accounts registered, an admin's request reached
\* MovieHandler.CreateMovie
C12_Witness ==
    /\ resp.op = "MovieHandler.CreateMovie" /\ resp.next
    /\ HasRow(resp.ctxUserID) /\ users[resp.ctxUserID].is_admin
    /\ Len(users) = MaxUsers

-----------------------------------------------------------------------------
(* Listing movies *)

\* the number of stored movies a filter matches
MatchCount(filter) == Cardinality({m \in movies : Matches(m, filter)})

\* ceil(n / p)
CeilDiv(n, p) == (n + p - 1) \div p

\* the number of entries page k holds when n entries are cut in pages of p
PageLen(n, p, k) ==
    IF k < CeilDiv(n, p) THEN p
    ELSE IF k = CeilDiv(n, p) THEN n - (CeilDiv(n, p) - 1) * p
    ELSE 0

Unusable(param) == ~param.present \/ ~param.int \/ param.n <= 0

\* C14: for every GET /api/movies the effective page is 1 when the page
\* parameter is absent, unparsable or <= 0, the effective page size is 10
\* when page_size is absent, unparsable or <= 0, and the offset used is
\* (page - 1) * page_size.
C14_Defaults ==
    (reply.op = "GetMovies" /\ reply.status = StatusOK) =>
        LET q == reply.request
            page == IF Unusable(q.page) THEN 1 ELSE q.page.n
            pageSize == IF Unusable(q.page_size) THEN 10 ELSE q.page_size.n
        IN /\ reply.limit = pageSize
           /\ reply.offset = (page - 1) * pageSize

\* the stored row a listed movie was made from
RowOf(listed) == CHOOSE m \in movies : m.id = listed.id

\* the listed movies are in order of a column of their rows, ascending or not
Sorted(listed, col, ascending) ==
    \A i, j \in 1..Len(listed) :
        i < j => IF ascending
                 THEN Column(RowOf(listed[i]), col) <= Column(RowOf(listed[j]), col)
                 ELSE Column(RowOf(listed[i]), col) >= Column(RowOf(listed[j]), col)

\* C15: GetMovies orders by the exact sort key: title_asc by title ascending,
\* title_desc by title descending, year_asc / year_desc by release year,
\* rating_desc by rating non-increasing; any other sort_by, the empty and the
\* differently cased ones included, orders by creation time descending and
\* is no error.
C15_SortKeys ==
    (reply.op = "GetMovies" /\ reply.request.db = "ok") =>
        LET sortBy == reply.request.sort_by
            listed == reply.movies
        IN /\ reply.status = StatusOK
           /\ sortBy = "title_asc" => Sorted(listed, "title", TRUE)
           /\ sortBy = "title_desc" => Sorted(listed, "title", FALSE)
           /\ sortBy = "year_asc" => Sorted(listed, "release_year", TRUE)
           /\ sortBy = "year_desc" => Sorted(listed, "release_year", FALSE)
           /\ sortBy = "rating_desc" => Sorted(listed, "rating", FALSE)
           /\ sortBy \notin {"title_asc", "title_desc", "year_asc", "year_desc",
                            "rating_desc"} => Sorted(listed, "created_at", FALSE)

\* C15 witness: a listing asked for with sort_by=TITLE_ASC came newest first
\* and not in order of title
C15_Witness ==
    /\ reply.op = "GetMovies" /\ reply.status = StatusOK
    /\ reply.request.sort_by = "TITLE_ASC"
    /\ Len(reply.movies) >= 2
    /\ RowOf(reply.movies[1]).created_at > RowOf(reply.movies[2]).created_at
    /\ Collate(reply.movies[1].title) > Collate(reply.movies[2].title)

-----------------------------------------------------------------------------
(* Creating and updating movies *)

\* no catalog request is in progress and no response is waiting
Quiet == reply = NoReply /\ \A p \in Procs : work[p].pc = "idle"

\* a request that sets the title and nothing else, the database answering
TitleRequest(id, title) ==
    [MovieBody(TRUE, {"title"}, title, "", 0) EXCEPT !.id = id, !.db = "ok"]

\* C16: creating a movie under the title of an existing movie fails with 409
\* Conflict and inserts nothing; updating a different movie to that title fails
\* with 409 and changes nothing; updating a movie and keeping its own title
\* succeeds.
C16_TitleConflict ==
    /\ Quiet =>
         \A m \in movies :
            /\ LET chk == MovieHandler_CreateMovie_Check(movies, TitleRequest(Absent, m.title))
               IN ~chk.proceed /\ chk.reply.status = StatusConflict
            /\ \A o \in movies :
                 LET r == TitleRequest(Num(o.id), m.title)
                     got == MovieHandler_UpdateMovie_Load(movies, r)
                     chk == MovieHandler_UpdateMovie_Check(movies, got.movie, r)
                     res == MovieHandler_UpdateMovie_Update(movies, got.movie, r)
                 IN /\ got.proceed
                    /\ o.id # m.id => (~chk.proceed /\ chk.reply.status = StatusConflict)
                    /\ o.id = m.id => (chk.proceed /\ res.reply.status = StatusOK)
    /\ (reply.op = "CreateMovie" /\ reply.error = ErrMovieExists) =>
         reply.status = StatusConflict
    /\ (reply.op = "UpdateMovie" /\ reply.error = ErrTitleTaken) =>
         reply.status = StatusConflict

\* C17: in every reachable state, whatever the interleaving of CreateMovie and
\* UpdateMovie calls, no two movie rows have the same title.
C17_TitleUnique ==
    \A m1, m2 \in movies : m1.title = m2.title => m1.id = m2.id

\* the row of the movies table with an id
StoredMovie(table, id) == CHOOSE m \in table : m.id = id

\* C20: after a successful PUT /api/admin/movies/{id} the stored movie has the
\* requested value for every field present in the body, an empty or zero value
\* included, and its previous value for every field absent from it, and the
\* movie in the response equals the stored movie.
C20_PartialUpdate ==
    [][(reply = NoReply /\ reply'.op = "UpdateMovie" /\ reply'.status = StatusOK) =>
         LET r == reply'.request
             old == StoredMovie(movies, r.id.n)
             new == StoredMovie(movies', r.id.n)
         IN /\ new.title = IF "title" \in r.present THEN r.title ELSE old.title
            /\ new.description =
                 IF "description" \in r.present THEN r.description ELSE old.description
            /\ new.release_year =
                 IF "release_year" \in r.present THEN r.release_year ELSE old.release_year
            /\ reply'.movie = MovieResponse(new)]_vars

-----------------------------------------------------------------------------
(* Deleting a movie *)

\* the rows of a table that a step removes
Removed(before, after) == before \ after

\* C18: DeleteMovie removes the category associations of the movie, then its
\* favorites, then the movie row. A step removes a favorite of a movie only
\* when no association references the movie any more, and removes a movie row
\* only when no association and no favorite references it; and in no state of
\* a call that has begun is the movie row gone while a row that referenced the
\* movie when the call began is still there.
C18_DeleteMovieOrder ==
    /\ [](\A p \in Procs :
            work[p].pc \in DeletePcs /\ (\A m \in movies : m.id # work[p].id)
                => work[p].refs \cap (movie_categories \cup user_favorites) = {})
    /\ [][/\ \A f \in Removed(user_favorites, user_favorites') :
                \A x \in movie_categories' : x.movie_id # f.movie_id
          /\ \A m \in Removed(movies, movies') :
                RefsTo(movie_categories', user_favorites', m.id) = {}
          /\ \A p \in Procs :
                work[p].pc \in DeletePcs /\ (\A m \in movies' : m.id # work[p].id)
                    => work[p].refs \cap (movie_categories' \cup user_favorites') = {}
          /\ \A p \in Procs :
                work[p].pc = "idle" /\ work'[p].pc \in DeletePcs
                    => /\ RefsTo(movie_categories', user_favorites', work'[p].id)
                              \subseteq user_favorites
                       /\ movies' = movies]_vars

\* C18 witness: DeleteMovie(1) has answered 204; the movie, which was in a
\* category and a favorite in the stored database, is gone with every row that
\* referenced it, and the other movie is still there
C18_Witness ==
    /\ reply.op = "DeleteMovie"
    /\ reply.status = StatusNoContent
    /\ reply.request.id = Num(1)
    /\ \A m \in movies : m.id # 1
    /\ \E m \in movies : m.id = 2
    /\ RefsTo(movie_categories, user_favorites, 1) = {}

-----------------------------------------------------------------------------
(* Deleting a category *)

\* DeleteCategory has just answered the request with path parameter id, and
\* every round trip of the call went through
DeletedCategory(id) ==
    /\ reply = NoReply
    /\ reply'.op = "DeleteCategory"
    /\ reply'.request = IdRequest(Num(id), AllOk)

\* the ids GetCategories lists
Listed(cats) == {c.id : c \in
                   {CategoryHandler_GetCategories(cats, IdRequest(Absent, AllOk)).categories[i] :
                       i \in 1..Cardinality(cats)}}

C19_WitnessInUse ==
    /\ reply.op = "DeleteCategory"
    /\ reply.error = ErrCategoryInUse
    /\ \E c \in categories : Num(c.id) = reply.request.id

-----------------------------------------------------------------------------
(* The body of an error response *)

\* the response is an error response whose body is the JSON object
\* {"error": message}
IsErrorObject(r) ==
    /\ r.wire.form = "json"
    /\ r.wire.keys = {"error"}
    /\ r.wire.error = r.error

\* C21: every response with status >= 400 that a handler or a middleware has
\* written has a JSON body of the shape {"error": "<message>"}.
C21_ErrorBodyShape ==
    /\ resp.status >= StatusBadRequest => IsErrorObject(resp)
    /\ reply.status >= StatusBadRequest => IsErrorObject(reply)

-----------------------------------------------------------------------------
(* Environment references in the configuration *)

\* os.ExpandEnv: every ${NAME} replaced by the value of NAME in env
RECURSIVE ExpandEnv(_, _)
ExpandEnv(text, env) ==
    IF text = <<>> THEN <<>>
    ELSE IF Len(text) >= 3 /\ text[1] = "${" /\ text[3] = "}" /\ text[2] \in DOMAIN env
    THEN env[text[2]] \o ExpandEnv(SubSeq(text, 4, Len(text)), env)
    ELSE <<text[1]>> \o ExpandEnv(Tail(text), env)

\* the text holds a piece of a reference
HasPlaceholder(text) == \E i \in 1..Len(text) : text[i] = "${"

Secrets == {"jwt_secret", "db_password", "license_key"}

\* C22: in the configuration LoadConfig returns, every ${VAR_NAME} of the
\* file is replaced by the value of the environment variable VAR_NAME, so no
\* secret of the process is the placeholder text.
C22_EnvInterpolated ==
    cfg.loaded /\ cfg.err = NoErr =>
        \A f \in Secrets :
            /\ cfg.config[f] = ExpandEnv(configFile[f], environ)
            /\ ~HasPlaceholder(cfg.config[f])

-----------------------------------------------------------------------------
(* A failure in the middle of DeleteMovie *)

\* the rows of table `name` that belong to movie id
RowsOf(name, ms, mcs, ufs, id) ==
    IF name = "movies" THEN {m \in ms : m.id = id}
    ELSE IF name = "movie_categories" THEN {x \in mcs : x.movie_id = id}
    ELSE {x \in ufs : x.movie_id = id}

\* C23: DeleteMovie is not atomic. A call goes on to its next statement only
\* when the one before has removed its rows. When its second or third
\* statement fails the call answers with that error and ends there: the
\* failed step changes no table, the rows removed by the earlier statements
\* stay removed, and the rows of the later statements, the movie row among
\* them, stay.
C23_NoRollback ==
    [][\A p \in Procs :
         work[p].pc \in DeletePcs /\ work'[p] # work[p] =>
            LET k == StepOf(work[p].pc)
                id == work[p].id
            IN /\ work'[p].pc \in DeletePcs =>
                    /\ work'[p].pc = DeletePc[k + 1]
                    /\ RowsOf(DeleteOrder[k], movies', movie_categories',
                              user_favorites', id) = {}
                    /\ reply' = NoReply
               /\ work'[p].pc \notin DeletePcs =>
                    /\ work'[p] = NoWork
                    /\ reply'.op = "DeleteMovie"
                    /\ reply'.request = [id |-> Num(id), db |-> reply'.request.db]
                    /\ IF reply'.request.db = "ok"
                       THEN /\ k = Len(DeleteOrder)
                            /\ reply'.status = StatusNoContent
                       ELSE /\ reply'.status = StatusInternalServerError
                            /\ reply'.error = ErrDriver
                            /\ UNCHANGED <<movies, movie_categories, user_favorites>>
                            /\ \A j \in 1..(k - 1) :
                                  work[p].refs \cap RowsOf(DeleteOrder[j], movies',
                                      movie_categories', user_favorites', id) = {}]_vars

\* C23 witness: DeleteMovie(1) has failed and answered 500; movie 1 is still
\* stored, and the association and the favorite it had in the stored
\* database are gone
C23_Witness ==
    /\ reply.op = "DeleteMovie"
    /\ reply.status = StatusInternalServerError
    /\ reply.request = [id |-> Num(1), db |-> "fail"]
    /\ \E m \in movies : m.id = 1
    /\ MovieCategory(1, 1) \notin movie_categories
    /\ UserFavorite(1, 1, 1) \notin user_favorites

-----------------------------------------------------------------------------
(* Graceful shutdown *)

\* what every step of the server keeps to: it takes no new request once
\* Shutdown has begun; Start returns only after a signal was delivered,
\* with nil when no request is in flight and with the "forced to shutdown"
\* error when the window is over and a request still is
ShutdownSteps ==
    [][/\ srv.main \in {"shutdown", "returned"} => srv'.inflight <= srv.inflight
       /\ srv'.main = "returned" /\ srv.main # "returned" =>
            /\ srv.delivered
            /\ srv.main = "shutdown"
            /\ srv'.result = "nil" <=> srv.inflight = 0
            /\ srv'.result = "forced" <=> srv.inflight > 0 /\ srv.elapsed = ShutdownWindow
       /\ srv.main # "returned" => srv.result = "-"]_vars

C24_WitnessDrained ==
    /\ srv.main = "returned"
    /\ srv.result = "nil"
    /\ srv.elapsed > 0

-----------------------------------------------------------------------------
(* Stateless authentication *)

\* C25: Login and RefreshToken invalidate no token. Whatever logins,
\* refreshes and other requests have been served since, every token issued
\* is accepted by ValidateToken, yielding its user's id, as long as the clock
\* is before the token's own expiry, and a protected route lets it through;
\* the outcome follows from the token, the secret and the clock alone.
C25_Stateless ==
    \A e \in issued :
        /\ now < e.token.claims.exp =>
              /\ AuthService_ValidateToken(e.token, now) = [err |-> NoErr, userID |-> e.user]
              /\ (resp.op = "protected" /\ Carried(e.token)) =>
                     resp.next /\ resp.ctxUserID = e.user
        /\ AuthService_ValidateToken(e.token, now).err = NoErr
              <=> (WellSigned(e.token) /\ now < e.token.claims.exp)

\* C25 witness: a user holds two tokens, the second issued after the first by
\* a login or a refresh, and a protected route has just let the first one
\* through
C25_Witness ==
    \E e1, e2 \in issued :
        /\ e1.user = e2.user
        /\ e1.token.claims.iat < e2.token.claims.iat
        /\ resp.op = "protected" /\ Carried(e1.token)
        /\ resp.next /\ resp.ctxUserID = e1.user

-----------------------------------------------------------------------------
(* The page field of a listing *)

\* C26: the page field of every GET /api/movies response is the number of
\* the page whose entries it returns: 1 when the page parameter is absent,
\* unparsable or <= 0, the parameter otherwise; the entries are those at
\* offset (page - 1) * limit.
C26_PageField ==
    (reply.op = "GetMovies" /\ reply.status = StatusOK) =>
        /\ reply.page = IF Unusable(reply.request.page) THEN 1 ELSE reply.request.page.n
        /\ reply.offset = (reply.page - 1) * reply.limit

-----------------------------------------------------------------------------
(* Who changes the admin flag *)

\* the step keeps the admin flag, the email and the password hash of every
\* stored user, stores new users with the admin flag false, and changes the
\* name of a user only as the write of an UpdateUser call for that user
KeepsAccounts ==
    /\ Len(users') >= Len(users)
    /\ \A id \in 1..Len(users) :
          /\ users'[id].is_admin = users[id].is_admin
          /\ users'[id].email = users[id].email
          /\ users'[id].password = users[id].password
          /\ users'[id].name # users[id].name =>
                \E p \in Procs : /\ pc[p] = "update-user" /\ pc'[p] = "idle"
                                 /\ req[p].user.id = id
                                 /\ users'[id].name = req[p].user.name
    /\ \A id \in (Len(users) + 1)..Len(users') : ~users'[id].is_admin

\* C27: no operation of the services changes an admin flag. Every step other
\* than a change made in the database directly (UpdateUser of the model)
\* keeps the admin flag, email and password hash of every user; Register
\* stores admin = false; UserService.UpdateUser changes only the name of the
\* user it addresses.
C27_AdminFlagKept == [][UpdateUser \/ KeepsAccounts]_vars

\* C28: with a loadable configuration and a reachable database, server.New
\* resolves the four handlers from the container and returns a server, not
\* a dependency-resolution error
C28_HandlersResolve ==
    (boot.stage \in {"ready", "failed"} /\ cfg.loaded /\ cfg.err = NoErr /\ boot.db = "ok")
        => (boot.stage = "ready" /\ boot.err = NilErr)

\* C29: two concurrent PUT /api/admin/movies/{id} on the same movie that set
\* different fields both take effect. When a PUT writes successfully and a
\* field that its body does not set has been changed in the stored row since
\* the PUT read the movie (another PUT has completed in between), the stored
\* row keeps that changed value.
C29_BothTakeEffect ==
    [][\A p \in Procs :
         (/\ work[p].pc = "update-write"
          /\ work'[p].pc = "idle"
          /\ reply'.op = "UpdateMovie"
          /\ reply'.status = StatusOK) =>
            \A f \in AllFields \ work[p].request.present :
                StoredMovie(movies, work[p].id)[f] # work[p].movie[f] =>
                    StoredMovie(movies', work[p].id)[f] = StoredMovie(movies, work[p].id)[f]]_vars

-----------------------------------------------------------------------------
(* Deleting a movie that is not there *)

\* the movies table has no row with the id
NoMovieRow(id) == \A m \in movies : m.id # id

C30_WitnessTwice ==
    \E p \in Procs :
        /\ work[p].pc = DeletePc[Len(DeletePc)]
        /\ work[p].id = 1
        /\ NoMovieRow(1)

====
